---- MODULE Spec2Model ----
(***************************************************************************)
(* MyDashboard backend: the snapshot store (internal/store), the request   *)
(* handlers and the simulation scheduler (internal/api), and the process   *)
(* wiring of cmd/server.                                                   *)
(*                                                                         *)
(* Numbers.  float64 metric fields are fixed-point integers in units of    *)
(* 1/10000 (Scale); a draw of rng.Float64() is a number of hundredths      *)
(* k \in 0..99 standing for k/100 \in [0,1).  time.Time values are         *)
(* integers in half seconds; the zero time.Time is NoTime.                 *)
(***************************************************************************)
EXTENDS Integers, Sequences, FiniteSets, TLC

(* ------------------------------ bounds -------------------------------- *)
NumReq == 2       \* request slots served concurrently
MaxNow == 1       \* the clock runs from 0 to MaxNow half seconds
MaxLog == 1       \* rows the metrics_snapshot table can take
MaxIns == 1       \* rows the insights table can take

(* --------------------------- program constants ------------------------ *)
Scale == 10000
NoTime == -1

RevenueMin == 39000
RevenueMax == 62000
GrowthMin == 100000
GrowthMax == 280000
SentimentMin == 580000
SentimentMax == 900000
BacklogMin == 95
BacklogMax == 180

StatusOK == 200
StatusBadRequest == 400
StatusInternalServerError == 500

(* ------------------------------- store -------------------------------- *)
\* store.Metrics; Metrics{} is the zero value LatestMetrics returns on no rows.
Metrics(rev, gro, sen, bkl, at) ==
  [rev |-> rev, gro |-> gro, sen |-> sen, bkl |-> bkl, at |-> at]

ZeroMetrics == Metrics(0, 0, 0, 0, NoTime)

IsZero(t) == t = NoTime

\* DECIMAL(n,1) in place of DECIMAL(n,2).
RoundDecimal1(v) == ((v + 500) \div 1000) * 1000

\* DECIMAL(n,2): a value is rounded (half up) to a multiple of 1/100.
RoundDecimal2(v) == ((v + 50) \div 100) * 100

\* TIMESTAMP without fractional seconds: a time is rounded (half up) to a
\* whole second, that is to an even number of half seconds.
RoundTimestamp(t) == ((t + 1) \div 2) * 2

\* The row the INSERT of InsertMetricsAt leaves in metrics_snapshot.
MetricsRow(m) ==
  Metrics(RoundDecimal2(m.rev), RoundDecimal2(m.gro), RoundDecimal2(m.sen),
          m.bkl, RoundTimestamp(m.at))

\* InsertMetricsAt as an upsert of the newest row.
InsertMetricsAtReplacing(log, m) ==
  IF log = <<>> THEN <<MetricsRow(m)>>
  ELSE [log EXCEPT ![Len(log)] = MetricsRow(m)]

InsertMetricsAt(log, m) == Append(log, MetricsRow(m))

InsertMetrics(log, m) == InsertMetricsAt(log, m)

\* SELECT ... ORDER BY created_at DESC LIMIT 1: a row of greatest created_at
\* (any of them when several tie), or Metrics{} when there is no row.
LatestMetrics(log) ==
  IF Len(log) = 0 THEN {ZeroMetrics}
  ELSE {log[i] : i \in {j \in 1..Len(log) :
                          \A k \in 1..Len(log) : log[k].at <= log[j].at}}

\* Store.Trend: the query yields the `limit` rows of greatest created_at in
\* descending order (rows of equal created_at in any order); the loop then
\* reverses them in place.  The set of results the call can return.
Reverse(s) == [i \in 1..Len(s) |-> s[Len(s) + 1 - i]]

Min(a, b) == IF a < b THEN a ELSE b

\* The orders ORDER BY created_at DESC can give the rows `rest` of log: a row
\* of greatest created_at first, then an order of the others.
RECURSIVE DescOrdersOf(_, _)
DescOrdersOf(log, rest) ==
  IF rest = {} THEN {<<>>}
  ELSE UNION {{<<i>> \o p : p \in DescOrdersOf(log, rest \ {i})} :
                i \in {j \in rest : \A k \in rest : log[k].at <= log[j].at}}

DescOrders(log) == DescOrdersOf(log, 1..Len(log))

TrendNotReversed(log, limit) ==
  {[i \in 1..Min(limit, Len(log)) |-> log[p[i]]] : p \in DescOrders(log)}

Trend(log, limit) ==
  {Reverse([i \in 1..Min(limit, Len(log)) |-> log[p[i]]]) : p \in DescOrders(log)}

\* store.Insight.
Insight(id, title, message, source, at) ==
  [id |-> id, title |-> title, message |-> message, source |-> source, at |-> at]

\* The row the INSERT of InsertInsight leaves in insights: id is the
\* AUTO_INCREMENT key, created_at the column default CURRENT_TIMESTAMP (the
\* whole second the statement runs in).
InsightRowKeepsID(log, insight, t) ==
  Insight(0, insight.title, insight.message, insight.source, (t \div 2) * 2)

InsightRow(log, insight, t) ==
  Insight(Len(log) + 1, insight.title, insight.message, insight.source, (t \div 2) * 2)

\* What InsertInsight returns on success: the argument with ID set to
\* LastInsertId and CreatedAt set to time.Now().
InsertInsightResult(log, insight, t) ==
  Insight(Len(log) + 1, insight.title, insight.message, insight.source, t)

\* Store.LatestInsights with the rows reversed as Store.Trend reverses them.
LatestInsightsReversed(log, limit) ==
  {Reverse([i \in 1..Min(limit, Len(log)) |-> log[p[i]]]) : p \in DescOrders(log)}

\* Store.LatestInsights: the `limit` rows of greatest created_at, in
\* descending order (rows of equal created_at in any order).
LatestInsights(log, limit) ==
  {[i \in 1..Min(limit, Len(log)) |-> log[p[i]]] : p \in DescOrders(log)}

(* -------------------------------- api --------------------------------- *)
\* Strings the program inspects are sequences of one-character strings.
Digits == <<"0", "1", "2", "3", "4", "5", "6", "7", "8", "9">>

IsDigit(c) == \E d \in 1..10 : Digits[d] = c

DigitValue(c) == (CHOOSE d \in 1..10 : Digits[d] = c) - 1

RECURSIVE DigitsValue(_)
DigitsValue(s) ==
  IF s = <<>> THEN 0
  ELSE DigitsValue(SubSeq(s, 1, Len(s) - 1)) * 10 + DigitValue(s[Len(s)])

\* strconv.Atoi: an optional sign and one or more decimal digits, anything
\* else is an error.
Atoi(s) ==
  LET signed == s # <<>> /\ s[1] \in {"+", "-"}
      body == IF signed THEN Tail(s) ELSE s
  IN IF body = <<>> \/ \E i \in 1..Len(body) : ~IsDigit(body[i])
     THEN [ok |-> FALSE, n |-> 0]
     ELSE [ok |-> TRUE,
           n |-> IF signed /\ s[1] = "-" THEN 0 - DigitsValue(body)
                 ELSE DigitsValue(body)]

parseQueryInt(value, fallback) ==
  IF value = <<>> THEN fallback
  ELSE IF ~Atoi(value).ok THEN fallback ELSE Atoi(value).n

Upper == <<"A", "B", "C", "D", "E", "F", "G", "H", "I", "J", "K", "L", "M",
           "N", "O", "P", "Q", "R", "S", "T", "U", "V", "W", "X", "Y", "Z">>

Lower == <<"a", "b", "c", "d", "e", "f", "g", "h", "i", "j", "k", "l", "m",
           "n", "o", "p", "q", "r", "s", "t", "u", "v", "w", "x", "y", "z">>

ToLowerChar(c) ==
  IF \E i \in 1..26 : Upper[i] = c
  THEN Lower[CHOOSE i \in 1..26 : Upper[i] = c]
  ELSE c

\* strings.ToLower
ToLower(s) == [i \in 1..Len(s) |-> ToLowerChar(s[i])]

\* strings.FieldsFunc(s, func(r rune) bool { return r == ',' }): the maximal
\* runs of characters other than the comma.
RECURSIVE FieldsFrom(_, _)
FieldsFrom(s, field) ==
  IF s = <<>> THEN (IF field = <<>> THEN <<>> ELSE <<field>>)
  ELSE IF Head(s) = ","
       THEN (IF field = <<>> THEN <<>> ELSE <<field>>) \o FieldsFrom(Tail(s), <<>>)
       ELSE FieldsFrom(Tail(s), Append(field, Head(s)))

FieldsFunc(s) == FieldsFrom(s, <<>>)

\* strings.TrimSpace
RECURSIVE TrimSpace(_)
TrimSpace(s) ==
  IF s = <<>> THEN s
  ELSE IF Head(s) = " " THEN TrimSpace(Tail(s))
  ELSE IF s[Len(s)] = " " THEN TrimSpace(SubSeq(s, 1, Len(s) - 1))
  ELSE s

\* strings.EqualFold
EqualFold(s, t) == ToLower(s) = ToLower(t)

StatusNoContent == 204

\* A response header that was not set.
NoHeader == [set |-> FALSE, value |-> <<>>]

Header(v) == [set |-> TRUE, value |-> v]

\* corsMiddleware answering every origin with itself.
corsMiddlewareReflecting(allowedOrigins, origin, method) ==
  [allowOrigin |-> IF allowedOrigins = <<>> \/ allowedOrigins = <<"*">>
                   THEN Header(<<"*">>)
                   ELSE IF origin # <<>> THEN Header(origin) ELSE NoHeader,
   status |-> IF method = "OPTIONS" THEN StatusNoContent ELSE 0,
   next |-> method # "OPTIONS"]

\* corsMiddleware for one request: the Access-Control-Allow-Origin header it
\* sets, the status it writes itself (0 when it writes none) and whether it
\* calls next.ServeHTTP.
corsMiddleware(allowedOrigins, origin, method) ==
  LET origins == FieldsFunc(allowedOrigins)
      allowAll == allowedOrigins = <<>> \/ allowedOrigins = <<"*">>
  IN [allowOrigin |->
        IF allowAll THEN Header(<<"*">>)
        ELSE IF origin # <<>>
                /\ \E i \in 1..Len(origins) : EqualFold(TrimSpace(origins[i]), origin)
             THEN Header(origin)
             ELSE NoHeader,
      status |-> IF method = "OPTIONS" THEN StatusNoContent ELSE 0,
      next |-> method # "OPTIONS"]

\* json.NewDecoder(r.Body).Decode(&payload): a body is <<"json", metricKey>>
\* when it decodes into InsightRequest, and anything else when it does not.
Decode(body) ==
  IF Len(body) = 2 /\ body[1] = "json"
  THEN [ok |-> TRUE, MetricKey |-> body[2]]
  ELSE [ok |-> FALSE, MetricKey |-> <<>>]

defaultMetrics(t) == Metrics(48200, 186000, 720000, 128, t)

clampNoUpper(value, min, max) == IF value < min THEN min ELSE value

clamp(value, min, max) ==
  IF value < min THEN min ELSE IF value > max THEN max ELSE value

\* simulateMetrics: d[1..4] are the four draws of rng.Float64(), in
\* hundredths, in the order the struct literal evaluates them.
simulateMetrics(d, previous, t) ==
  Metrics(clamp(previous.rev + (d[1] - 35) * 12, RevenueMin, RevenueMax),
          clamp(previous.gro + (d[2] - 45) * 160, GrowthMin, GrowthMax),
          clamp(previous.sen + (d[3] - 50) * 240, SentimentMin, SentimentMax),
          clamp(previous.bkl * Scale + (d[4] - 40) * 600,
                BacklogMin * Scale, BacklogMax * Scale) \div Scale,
          t)

Minute == 120     \* time.Minute in half seconds

\* seedTrendMetrics: twelve points one minute apart ending a minute ago;
\* point i (from 0) has revenue (55 + 1.8 i + (i / 1.8) * 2) / 10.
seedTrendMetrics(t) ==
  [k \in 1..12 |->
     Metrics(55000 + 1800 * (k - 1) + (20000 * (k - 1)) \div 18,
             defaultMetrics(t).gro, defaultMetrics(t).sen,
             defaultMetrics(t).bkl, t + (k - 1 - 12) * Minute)]

\* buildMetricInsight with the switch on the key as it came.
buildMetricInsightCaseSensitive(key, metrics) ==
  IF key = <<"r", "e", "v", "e", "n", "u", "e">>
  THEN <<"Global revenue focus", "keep premium pricing in core regions">>
  ELSE IF key = <<"g", "r", "o", "w", "t", "h">>
  THEN <<"User growth focus", "shift acquisition budget to APAC">>
  ELSE IF key = <<"s", "e", "n", "t", "i", "m", "e", "n", "t">>
  THEN <<"Sentiment index focus", "prepare PR in EMEA for the 75% threshold">>
  ELSE IF key = <<"b", "a", "c", "k", "l", "o", "g">>
  THEN <<"Backlog focus", "raise logistics throughput">>
  ELSE <<"Strategy note", "keep resources concentrated on key metrics">>

\* buildMetricInsight: <<title, message>>; the texts are English renderings
\* of the program's fixed Chinese texts.
buildMetricInsight(key, metrics) ==
  IF ToLower(key) = <<"r", "e", "v", "e", "n", "u", "e">>
  THEN <<"Global revenue focus", "keep premium pricing in core regions">>
  ELSE IF ToLower(key) = <<"g", "r", "o", "w", "t", "h">>
  THEN <<"User growth focus", "shift acquisition budget to APAC">>
  ELSE IF ToLower(key) = <<"s", "e", "n", "t", "i", "m", "e", "n", "t">>
  THEN <<"Sentiment index focus", "prepare PR in EMEA for the 75% threshold">>
  ELSE IF ToLower(key) = <<"b", "a", "c", "k", "l", "o", "g">>
  THEN <<"Backlog focus", "raise logistics throughput">>
  ELSE <<"Strategy note", "keep resources concentrated on key metrics">>

\* buildAutoInsight: the message is the sentence built from the three
\* descriptors, kept here as the triple <<revenuePulse, strength, backlogRisk>>.
buildAutoInsightInclusive(metrics) ==
  LET strength == IF metrics.sen >= 740000 THEN "strong"
                  ELSE IF metrics.sen <= 660000 THEN "fragile" ELSE "stable"
      revenuePulse == IF metrics.rev >= 51000 THEN "accelerating"
                      ELSE IF metrics.rev <= 46000 THEN "weakening" ELSE "steady"
      backlogRisk == IF metrics.bkl >= 150 THEN "rising"
                     ELSE IF metrics.bkl <= 120 THEN "low" ELSE "manageable"
  IN <<revenuePulse, strength, backlogRisk>>

buildAutoInsight(metrics) ==
  LET strength == IF metrics.sen > 740000 THEN "strong"
                  ELSE IF metrics.sen < 660000 THEN "fragile" ELSE "stable"
      revenuePulse == IF metrics.rev > 51000 THEN "accelerating"
                      ELSE IF metrics.rev < 46000 THEN "weakening" ELSE "steady"
      backlogRisk == IF metrics.bkl > 150 THEN "rising"
                     ELSE IF metrics.bkl < 120 THEN "low" ELSE "manageable"
  IN <<revenuePulse, strength, backlogRisk>>

(* ------------------------------- state -------------------------------- *)
\* The goroutine of StartSimulation is in one place at a time: at its select,
\* inside the body of case <-metricsTicker.C, or inside the body of case
\* <-insightTicker.C.  pc gives its place in each body ("idle": not in it).
MetricsTick == 0
InsightTick == -1
Ticks == {MetricsTick, InsightTick}
Reqs == 1..NumReq             \* goroutines serving one request each
Procs == Ticks \cup Reqs

\* The errors a call of database/sql can return to the store.
StoreErrors == {"bad connection", "context canceled"}

\* What four consecutive draws of the generator can give, in hundredths.
SimDraws == {<<0, 0, 0, 0>>, <<99, 99, 99, 99>>}

\* What metrics_snapshot can hold when the process starts: nothing (first
\* boot), or the last point of the trend ramp an earlier run seeded.
InitialLogs == {<<>>, <<MetricsRow(Metrics(87022, 186000, 720000, 128, 0))>>}

NoResponse == [status |-> 0, data |-> ZeroMetrics, error |-> ""]

VARIABLES
  now,        \* time.Now(), in half seconds
  cancelled,  \* ctx of main is done (SIGINT/SIGTERM was received)
  mlog,       \* table metrics_snapshot, rows in insertion order
  ilog,       \* table insights, rows in insertion order
  loop,       \* StartSimulation: "running", "stopped" (returned) or "crashed"
  tickLogged, \* StartSimulation has logged a failed tick write (log.Printf)
  pc,         \* where each request's goroutine, and each tick, is
  route,      \* the route each request slot is serving
  query,      \* its query value (window, limit) or body, as characters
  limit,      \* the handler's local `window` or `limit`
  cur,        \* each goroutine's local `metrics`
  nxt,        \* each goroutine's local `next`
  resp,       \* the response each request slot has written
  rngBusy,    \* goroutines inside a draw on s.rng
  raced,      \* goroutines whose draw overlapped another one's
  conns,      \* goroutines holding a connection of db's pool across steps
  arg,        \* input of the function under test (function specifications)
  res         \* its result

vars == <<now, cancelled, mlog, ilog, loop, tickLogged, pc, route, query,
          limit, cur, nxt, resp, rngBusy, raced, conns, arg, res>>

sharedVars == <<now, cancelled, mlog, ilog, conns>>
probeVars == <<arg, res>>

Init ==
  /\ now = 0
  /\ cancelled = FALSE
  /\ mlog \in InitialLogs
  /\ ilog = <<>>
  /\ loop = "running"
  /\ tickLogged = FALSE
  /\ pc = [p \in Procs |-> "idle"]
  /\ route = [r \in Reqs |-> "none"]
  /\ query = [r \in Reqs |-> <<>>]
  /\ limit = [r \in Reqs |-> 0]
  /\ cur = [p \in Procs |-> ZeroMetrics]
  /\ nxt = [p \in Procs |-> ZeroMetrics]
  /\ resp = [r \in Reqs |-> NoResponse]
  /\ rngBusy = {}
  /\ raced = {}
  /\ conns = {}
  /\ arg = <<>>
  /\ res = <<>>

\* The process is running: no goroutine has died of an unrecovered panic.
Alive == loop # "crashed"

\* db.SetMaxOpenConns(10)
MaxOpenConns == 10

\* database/sql hands a store call a connection of the pool only while fewer
\* than MaxOpenConns are in use; otherwise the call waits.  A call made within
\* one step takes its connection and returns it in that step.
PoolHasRoom == Cardinality(conns) < MaxOpenConns

\* StartSimulation is at its select: in its loop and in neither case body.
AtSelect == loop = "running" /\ \A t \in Ticks : pc[t] = "idle"

(* ---------------------------- environment ----------------------------- *)
ClockAdvance ==
  /\ now < MaxNow
  /\ now' = now + 1
  /\ UNCHANGED <<conns, cancelled, mlog, ilog, loop, tickLogged, pc, route, query,
                 limit, cur, nxt,
                 resp, rngBusy, raced, arg, res>>

\* signal.NotifyContext: the signal cancels ctx.
Cancel ==
  /\ Alive
  /\ ~cancelled
  /\ cancelled' = TRUE
  /\ UNCHANGED <<conns, now, mlog, ilog, loop, tickLogged, pc, route, query, limit,
                 cur, nxt,
                 resp, rngBusy, raced, arg, res>>

(* ------------------------- the shared generator ----------------------- *)
\* simulateMetrics draws from s.rng, a *rand.Rand that no lock guards.  A
\* goroutine is inside the generator from SimBegin to SimEnd.  Draws that
\* overlap are a data race on the generator's tap, feed and vec: each still
\* yields a number in [0,1), or indexes vec out of range and panics.
SimBegin(p) ==
  /\ Alive
  /\ pc[p] = "sim"
  /\ pc' = [pc EXCEPT ![p] = "draw"]
  /\ rngBusy' = rngBusy \cup {p}
  /\ raced' = IF rngBusy = {} THEN raced ELSE raced \cup rngBusy \cup {p}
  /\ UNCHANGED <<sharedVars, loop, tickLogged, route, query, limit, cur, nxt,
                 resp,
                 probeVars>>

SimEnd(p) ==
  /\ Alive
  /\ pc[p] = "draw"
  /\ \E d \in SimDraws : nxt' = [nxt EXCEPT ![p] = simulateMetrics(d, cur[p], now)]
  /\ pc' = [pc EXCEPT ![p] = "insert"]
  /\ cur' = [cur EXCEPT ![p] = ZeroMetrics]
  /\ rngBusy' = rngBusy \ {p}
  /\ raced' = raced \ {p}
  /\ UNCHANGED <<sharedVars, loop, tickLogged, route, query, limit, resp,
                 probeVars>>

\* The panic of a raced draw.  In a handler middleware.Recoverer answers 500;
\* in the scheduler's goroutine nothing recovers it and the process dies.
SimPanic(p) ==
  /\ Alive
  /\ pc[p] = "draw"
  /\ p \in raced
  /\ loop' = IF p \in Ticks THEN "crashed" ELSE loop
  /\ pc' = [pc EXCEPT ![p] = IF p \in Ticks THEN "idle" ELSE "done"]
  /\ resp' = IF p \in Ticks THEN resp
             ELSE [resp EXCEPT ![p] = [status |-> StatusInternalServerError,
                                       data |-> ZeroMetrics, error |-> ""]]
  /\ cur' = [cur EXCEPT ![p] = ZeroMetrics]
  /\ rngBusy' = rngBusy \ {p}
  /\ raced' = raced \ {p}
  /\ UNCHANGED <<sharedVars, tickLogged, route, query, limit, nxt, probeVars>>

(* ------------------------------ scheduler ----------------------------- *)
\* A store call made with ctx fails once ctx is done; any call can fail.
SchedCallOutcomes == IF cancelled THEN {FALSE} ELSE BOOLEAN

\* select, case <-ctx.Done(): return.
SchedDone ==
  /\ AtSelect
  /\ cancelled
  /\ loop' = "stopped"
  /\ UNCHANGED <<sharedVars, tickLogged, pc, route, query, limit, cur, nxt,
                 resp, rngBusy,
                 raced, probeVars>>

\* select, case <-metricsTicker.C: the ticker has delivered a tick.
SchedMetricsTick ==
  /\ AtSelect
  /\ pc' = [pc EXCEPT ![MetricsTick] = "read"]
  /\ UNCHANGED <<sharedVars, loop, tickLogged, route, query, limit, cur, nxt,
                 resp,
                 rngBusy, raced, probeVars>>

\* SchedMetricsRead with `return` where the code has `continue`.
SchedMetricsReadErrorReturns ==
  /\ loop = "running"
  /\ pc[MetricsTick] = "read"
  /\ PoolHasRoom
  /\ \E ok \in SchedCallOutcomes :
       /\ IF ok
          THEN /\ \E m \in LatestMetrics(mlog) :
                    cur' = [cur EXCEPT ![MetricsTick] =
                              IF IsZero(m.at) THEN defaultMetrics(now) ELSE m]
               /\ pc' = [pc EXCEPT ![MetricsTick] = "sim"]
               /\ loop' = loop
          ELSE /\ pc' = [pc EXCEPT ![MetricsTick] = "idle"]
               /\ cur' = cur
               /\ loop' = "stopped"
  /\ UNCHANGED <<sharedVars, tickLogged, route, query, limit, nxt, resp,
                 rngBusy, raced,
                 probeVars>>

\* SchedMetricsRead persisting the baseline as handleLatestMetrics does.
SchedMetricsReadSeeding ==
  /\ loop = "running"
  /\ pc[MetricsTick] = "read"
  /\ PoolHasRoom
  /\ \E ok \in SchedCallOutcomes :
       /\ IF ok
          THEN /\ \E m \in LatestMetrics(mlog) :
                    /\ cur' = [cur EXCEPT ![MetricsTick] =
                                 IF IsZero(m.at) THEN defaultMetrics(now) ELSE m]
                    /\ mlog' = IF IsZero(m.at)
                               THEN InsertMetricsAt(mlog, defaultMetrics(now))
                               ELSE mlog
               /\ pc' = [pc EXCEPT ![MetricsTick] = "sim"]
          ELSE /\ pc' = [pc EXCEPT ![MetricsTick] = "idle"]
               /\ cur' = cur
               /\ mlog' = mlog
  /\ UNCHANGED <<conns, now, cancelled, ilog, loop, tickLogged, route, query,
                 limit, nxt, resp, rngBusy, raced, probeVars>>

\* LatestMetrics(ctx); on an error `continue`; the baseline when no row.
SchedMetricsRead ==
  /\ loop = "running"
  /\ pc[MetricsTick] = "read"
  /\ PoolHasRoom
  /\ \E ok \in SchedCallOutcomes :
       /\ IF ok
          THEN /\ \E m \in LatestMetrics(mlog) :
                    cur' = [cur EXCEPT ![MetricsTick] =
                              IF IsZero(m.at) THEN defaultMetrics(now) ELSE m]
               /\ pc' = [pc EXCEPT ![MetricsTick] = "sim"]
          ELSE /\ pc' = [pc EXCEPT ![MetricsTick] = "idle"]
               /\ cur' = cur
  /\ UNCHANGED <<sharedVars, loop, tickLogged, route, query, limit, nxt,
                 resp, rngBusy,
                 raced, probeVars>>

\* InsertMetrics(ctx, next); an error is logged; back to the select.  The
\* table takes rows up to `rows`.
SchedMetricsInsertUpTo(rows) ==
  /\ loop = "running"
  /\ pc[MetricsTick] = "insert"
  /\ PoolHasRoom
  /\ \E ok \in SchedCallOutcomes :
       /\ ok => Len(mlog) < rows
       /\ mlog' = IF ok THEN InsertMetrics(mlog, nxt[MetricsTick]) ELSE mlog
       /\ tickLogged' = (tickLogged \/ ~ok)
  /\ pc' = [pc EXCEPT ![MetricsTick] = "idle"]
  /\ cur' = [cur EXCEPT ![MetricsTick] = ZeroMetrics]
  /\ nxt' = [nxt EXCEPT ![MetricsTick] = ZeroMetrics]
  /\ UNCHANGED <<conns, now, cancelled, ilog, loop, route, query, limit, resp,
                 rngBusy, raced,
                 probeVars>>

SchedMetricsInsert == SchedMetricsInsertUpTo(MaxLog)

\* SchedInsightTick as a loop of its own beside the metrics tick's.
SchedInsightTickOwnGoroutine ==
  /\ loop = "running"
  /\ pc[InsightTick] = "idle"
  /\ pc' = [pc EXCEPT ![InsightTick] = "read"]
  /\ UNCHANGED <<sharedVars, loop, tickLogged, route, query, limit, cur, nxt,
                 resp, rngBusy,
                 raced, probeVars>>

\* select, case <-insightTicker.C: the ticker has delivered a tick.
SchedInsightTick ==
  /\ AtSelect
  /\ pc' = [pc EXCEPT ![InsightTick] = "read"]
  /\ UNCHANGED <<sharedVars, loop, tickLogged, route, query, limit, cur, nxt,
                 resp,
                 rngBusy, raced, probeVars>>

SchedInsightRead ==
  /\ loop = "running"
  /\ pc[InsightTick] = "read"
  /\ PoolHasRoom
  /\ \E ok \in SchedCallOutcomes :
       /\ IF ok
          THEN /\ \E m \in LatestMetrics(mlog) :
                    cur' = [cur EXCEPT ![InsightTick] =
                              IF IsZero(m.at) THEN defaultMetrics(now) ELSE m]
               /\ pc' = [pc EXCEPT ![InsightTick] = "insert"]
          ELSE /\ pc' = [pc EXCEPT ![InsightTick] = "idle"]
               /\ cur' = cur
  /\ UNCHANGED <<sharedVars, loop, tickLogged, route, query, limit, nxt,
                 resp, rngBusy,
                 raced, probeVars>>

\* buildAutoInsight(metrics), InsertInsight(ctx, ...); an error is logged.
SchedInsightInsertUpTo(rows) ==
  /\ loop = "running"
  /\ pc[InsightTick] = "insert"
  /\ PoolHasRoom
  /\ \E ok \in SchedCallOutcomes :
       /\ ok => Len(ilog) < rows
       /\ ilog' = IF ok
                  THEN Append(ilog, InsightRow(ilog,
                         [title |-> "AI strategy advisor",
                          message |-> buildAutoInsight(cur[InsightTick]),
                          source |-> "auto"], now))
                  ELSE ilog
       /\ tickLogged' = (tickLogged \/ ~ok)
  /\ pc' = [pc EXCEPT ![InsightTick] = "idle"]
  /\ cur' = [cur EXCEPT ![InsightTick] = ZeroMetrics]
  /\ UNCHANGED <<conns, now, cancelled, mlog, loop, route, query, limit, nxt, resp,
                 rngBusy, raced,
                 probeVars>>

SchedInsightInsert == SchedInsightInsertUpTo(MaxIns)

(* ------------------------------ handlers ------------------------------ *)
\* A store call made with r.Context(): it succeeds or it fails with an error.
ErrorResponse(status, err) == [status |-> status, data |-> ZeroMetrics, error |-> err]

DataResponse(m) == [status |-> StatusOK, data |-> m, error |-> ""]

\* The router hands a request to its handler in a goroutine of its own; q is
\* the value of the query parameter the handler reads, or the body.
StartQuery(r, path, q) ==
  /\ Alive
  /\ pc[r] \in {"idle", "done"}
  /\ pc' = [pc EXCEPT ![r] = "read"]
  /\ route' = [route EXCEPT ![r] = path]
  /\ query' = [query EXCEPT ![r] = q]
  /\ limit' = [limit EXCEPT ![r] = 0]
  /\ resp' = [resp EXCEPT ![r] = NoResponse]
  /\ cur' = [cur EXCEPT ![r] = ZeroMetrics]
  /\ nxt' = [nxt EXCEPT ![r] = ZeroMetrics]
  /\ UNCHANGED <<sharedVars, loop, tickLogged, rngBusy, raced, probeVars>>

\* A request without query parameter and without body.
Start(r, path) == StartQuery(r, path, <<>>)

\* handleLatestMetrics with the error of LatestMetrics dropped.
LatestReadErrorDropped(r) ==
  /\ Alive
  /\ route[r] = "latest"
  /\ pc[r] = "read"
  /\ PoolHasRoom
  /\ \/ /\ resp' = [resp EXCEPT ![r] = DataResponse(ZeroMetrics)]
        /\ pc' = [pc EXCEPT ![r] = "done"]
        /\ cur' = cur
     \/ \E m \in LatestMetrics(mlog) :
          IF IsZero(m.at)
          THEN /\ cur' = [cur EXCEPT ![r] = defaultMetrics(now)]
               /\ pc' = [pc EXCEPT ![r] = "seed"]
               /\ resp' = resp
          ELSE /\ resp' = [resp EXCEPT ![r] = DataResponse(m)]
               /\ pc' = [pc EXCEPT ![r] = "done"]
               /\ cur' = cur
  /\ UNCHANGED <<sharedVars, loop, tickLogged, route, query, limit, nxt,
                 rngBusy, raced,
                 probeVars>>

\* handleLatestMetrics, to the end of a read that found a row or failed.
LatestRead(r) ==
  /\ Alive
  /\ route[r] = "latest"
  /\ pc[r] = "read"
  /\ PoolHasRoom
  /\ \/ \E err \in StoreErrors :
          /\ resp' = [resp EXCEPT ![r] = ErrorResponse(StatusInternalServerError, err)]
          /\ pc' = [pc EXCEPT ![r] = "done"]
          /\ cur' = cur
     \/ \E m \in LatestMetrics(mlog) :
          IF IsZero(m.at)
          THEN /\ cur' = [cur EXCEPT ![r] = defaultMetrics(now)]
               /\ pc' = [pc EXCEPT ![r] = "seed"]
               /\ resp' = resp
          ELSE /\ resp' = [resp EXCEPT ![r] = DataResponse(m)]
               /\ pc' = [pc EXCEPT ![r] = "done"]
               /\ cur' = cur
  /\ UNCHANGED <<sharedVars, loop, tickLogged, route, query, limit, nxt,
                 rngBusy, raced,
                 probeVars>>

\* handleLatestMetrics with a failed seed write answered like a failed read.
LatestSeedErrorReturned(r) ==
  /\ Alive
  /\ route[r] = "latest"
  /\ pc[r] = "seed"
  /\ PoolHasRoom
  /\ \/ /\ Len(mlog) < MaxLog
        /\ mlog' = InsertMetricsAt(mlog, cur[r])
        /\ resp' = [resp EXCEPT ![r] = DataResponse(cur[r])]
     \/ \E err \in StoreErrors :
          /\ mlog' = mlog
          /\ resp' = [resp EXCEPT ![r] = ErrorResponse(StatusInternalServerError, err)]
  /\ pc' = [pc EXCEPT ![r] = "done"]
  /\ cur' = [cur EXCEPT ![r] = ZeroMetrics]
  /\ UNCHANGED <<conns, now, cancelled, ilog, loop, tickLogged, route, query, limit,
                 nxt, rngBusy,
                 raced, probeVars>>

\* handleLatestMetrics after it found no row: InsertMetricsAt of the
\* baseline, whose error is only logged, then the response.
LatestSeed(r) ==
  /\ Alive
  /\ route[r] = "latest"
  /\ pc[r] = "seed"
  /\ PoolHasRoom
  /\ \/ /\ Len(mlog) < MaxLog
        /\ mlog' = InsertMetricsAt(mlog, cur[r])
     \/ mlog' = mlog
  /\ resp' = [resp EXCEPT ![r] = DataResponse(cur[r])]
  /\ pc' = [pc EXCEPT ![r] = "done"]
  /\ cur' = [cur EXCEPT ![r] = ZeroMetrics]
  /\ UNCHANGED <<conns, now, cancelled, ilog, loop, tickLogged, route, query, limit,
                 nxt, rngBusy,
                 raced, probeVars>>

\* handleSimulateMetrics persisting the baseline as handleLatestMetrics does.
SimulateReadSeeding(r) ==
  /\ Alive
  /\ route[r] = "simulate"
  /\ pc[r] = "read"
  /\ PoolHasRoom
  /\ \/ \E err \in StoreErrors :
          /\ resp' = [resp EXCEPT ![r] = ErrorResponse(StatusInternalServerError, err)]
          /\ pc' = [pc EXCEPT ![r] = "done"]
          /\ cur' = cur
          /\ mlog' = mlog
     \/ \E m \in LatestMetrics(mlog) :
          /\ cur' = [cur EXCEPT ![r] = IF IsZero(m.at) THEN defaultMetrics(now) ELSE m]
          /\ mlog' = IF IsZero(m.at) THEN InsertMetricsAt(mlog, defaultMetrics(now))
                     ELSE mlog
          /\ pc' = [pc EXCEPT ![r] = "sim"]
          /\ resp' = resp
  /\ UNCHANGED <<conns, now, cancelled, ilog, loop, tickLogged, route, query,
                 limit, nxt, rngBusy, raced, probeVars>>

\* handleSimulateMetrics, to the call of simulateMetrics.
SimulateRead(r) ==
  /\ Alive
  /\ route[r] = "simulate"
  /\ pc[r] = "read"
  /\ PoolHasRoom
  /\ \/ \E err \in StoreErrors :
          /\ resp' = [resp EXCEPT ![r] = ErrorResponse(StatusInternalServerError, err)]
          /\ pc' = [pc EXCEPT ![r] = "done"]
          /\ cur' = cur
     \/ \E m \in LatestMetrics(mlog) :
          /\ cur' = [cur EXCEPT ![r] = IF IsZero(m.at) THEN defaultMetrics(now) ELSE m]
          /\ pc' = [pc EXCEPT ![r] = "sim"]
          /\ resp' = resp
  /\ UNCHANGED <<sharedVars, loop, tickLogged, route, query, limit, nxt,
                 rngBusy, raced,
                 probeVars>>

\* handleSimulateMetrics from InsertMetrics on.  The table takes rows up to
\* `rows`.
SimulateInsertUpTo(r, rows) ==
  /\ Alive
  /\ route[r] = "simulate"
  /\ pc[r] = "insert"
  /\ PoolHasRoom
  /\ \/ /\ Len(mlog) < rows
        /\ mlog' = InsertMetrics(mlog, nxt[r])
        /\ resp' = [resp EXCEPT ![r] = DataResponse(nxt[r])]
     \/ \E err \in StoreErrors :
          /\ mlog' = mlog
          /\ resp' = [resp EXCEPT ![r] = ErrorResponse(StatusInternalServerError, err)]
  /\ pc' = [pc EXCEPT ![r] = "done"]
  /\ cur' = [cur EXCEPT ![r] = ZeroMetrics]
  /\ nxt' = [nxt EXCEPT ![r] = ZeroMetrics]
  /\ UNCHANGED <<conns, now, cancelled, ilog, loop, tickLogged, route, query, limit,
                 rngBusy, raced,
                 probeVars>>

SimulateInsert(r) == SimulateInsertUpTo(r, MaxLog)

\* TrendResponse: each point reduced to TrendPoint{Timestamp, Revenue}.
TrendResponse(points) ==
  [status |-> StatusOK,
   data |-> [k \in 1..Len(points) |->
               [timestamp |-> points[k].at, revenue |-> points[k].rev]],
   error |-> ""]

\* handleTrend with the error of Store.Trend dropped.
TrendReadErrorDropped(r) ==
  /\ Alive
  /\ route[r] = "trend"
  /\ pc[r] = "read"
  /\ PoolHasRoom
  /\ LET parsed == parseQueryInt(query[r], 12)
         window == IF parsed < 3 THEN 3 ELSE parsed
     IN /\ limit' = [limit EXCEPT ![r] = window]
        /\ \/ /\ pc' = [pc EXCEPT ![r] = "seed"]
              /\ resp' = resp
           \/ \E points \in Trend(mlog, window) :
                IF Len(points) = 0
                THEN /\ pc' = [pc EXCEPT ![r] = "seed"]
                     /\ resp' = resp
                ELSE /\ pc' = [pc EXCEPT ![r] = "done"]
                     /\ resp' = [resp EXCEPT ![r] = TrendResponse(points)]
  /\ UNCHANGED <<sharedVars, loop, tickLogged, route, query, cur, nxt,
                 rngBusy, raced, probeVars>>

\* handleTrend without `if window < 3 { window = 3 }`.
TrendReadNoFloor(r) ==
  /\ Alive
  /\ route[r] = "trend"
  /\ pc[r] = "read"
  /\ PoolHasRoom
  /\ LET window == parseQueryInt(query[r], 12)
     IN /\ limit' = [limit EXCEPT ![r] = window]
        /\ \/ \E err \in StoreErrors :
                /\ pc' = [pc EXCEPT ![r] = "done"]
                /\ resp' = [resp EXCEPT ![r] =
                              ErrorResponse(StatusInternalServerError, err)]
           \/ \E points \in Trend(mlog, window) :
                IF Len(points) = 0
                THEN /\ pc' = [pc EXCEPT ![r] = "seed"]
                     /\ resp' = resp
                ELSE /\ pc' = [pc EXCEPT ![r] = "done"]
                     /\ resp' = [resp EXCEPT ![r] = TrendResponse(points)]
  /\ UNCHANGED <<sharedVars, loop, tickLogged, route, query, cur, nxt,
                 rngBusy, raced, probeVars>>

\* handleTrend, to the end of a read that found rows or failed.
TrendRead(r) ==
  /\ Alive
  /\ route[r] = "trend"
  /\ pc[r] = "read"
  /\ PoolHasRoom
  /\ LET parsed == parseQueryInt(query[r], 12)
         window == IF parsed < 3 THEN 3 ELSE parsed
     IN /\ limit' = [limit EXCEPT ![r] = window]
        /\ \/ \E err \in StoreErrors :
                /\ pc' = [pc EXCEPT ![r] = "done"]
                /\ resp' = [resp EXCEPT ![r] =
                              ErrorResponse(StatusInternalServerError, err)]
           \/ \E points \in Trend(mlog, window) :
                IF Len(points) = 0
                THEN /\ pc' = [pc EXCEPT ![r] = "seed"]
                     /\ resp' = resp
                ELSE /\ pc' = [pc EXCEPT ![r] = "done"]
                     /\ resp' = [resp EXCEPT ![r] = TrendResponse(points)]
  /\ UNCHANGED <<sharedVars, loop, tickLogged, route, query, cur, nxt,
                 rngBusy, raced, probeVars>>

\* handleTrend answering with the seed points it managed to write.
TrendSeedReturnsWritten(r, rows) ==
  /\ Alive
  /\ route[r] = "trend"
  /\ pc[r] = "seed"
  /\ PoolHasRoom
  /\ LET points == seedTrendMetrics(now)
     IN \E n \in 0..Len(points) :
          /\ Len(mlog) + n <= rows
          /\ mlog' = mlog \o [k \in 1..n |-> MetricsRow(points[k])]
          /\ resp' = [resp EXCEPT ![r] = TrendResponse(SubSeq(points, 1, n))]
  /\ pc' = [pc EXCEPT ![r] = "done"]
  /\ UNCHANGED <<conns, now, cancelled, ilog, loop, tickLogged, route, query, limit,
                 cur, nxt, rngBusy, raced, probeVars>>

\* handleTrend after it found no row: seedTrendMetrics, InsertMetricsAt point
\* by point until one fails (n points are written), then the response built
\* from the twelve points.  The table takes rows up to `rows`.
TrendSeedUpTo(r, rows) ==
  /\ Alive
  /\ route[r] = "trend"
  /\ pc[r] = "seed"
  /\ PoolHasRoom
  /\ LET points == seedTrendMetrics(now)
     IN /\ \E n \in 0..Len(points) :
             /\ Len(mlog) + n <= rows
             /\ mlog' = mlog \o [k \in 1..n |-> MetricsRow(points[k])]
        /\ resp' = [resp EXCEPT ![r] = TrendResponse(points)]
  /\ pc' = [pc EXCEPT ![r] = "done"]
  /\ UNCHANGED <<conns, now, cancelled, ilog, loop, tickLogged, route, query, limit,
                 cur, nxt, rngBusy, raced, probeVars>>

\* The insight handleLatestInsights seeds an empty table with.
SeedInsight == [title |-> "Executive briefing",
                message |-> "global performance is above plan",
                source |-> "auto"]

InsightsResponse(items) == [status |-> StatusOK, data |-> items, error |-> ""]

\* handleLatestInsights with `limit = 1` where the code has `limit = 6`.
\* handleLatestInsights, to the end of a read that found rows or failed.
InsightsRead(r) ==
  /\ Alive
  /\ route[r] = "insights"
  /\ pc[r] = "read"
  /\ PoolHasRoom
  /\ LET parsed == parseQueryInt(query[r], 6)
         lim == IF parsed < 1 THEN 6 ELSE parsed
     IN /\ limit' = [limit EXCEPT ![r] = lim]
        /\ \/ \E err \in StoreErrors :
                /\ pc' = [pc EXCEPT ![r] = "done"]
                /\ resp' = [resp EXCEPT ![r] =
                              ErrorResponse(StatusInternalServerError, err)]
           \/ \E items \in LatestInsights(ilog, lim) :
                IF Len(items) = 0
                THEN /\ pc' = [pc EXCEPT ![r] = "seed"]
                     /\ resp' = resp
                ELSE /\ pc' = [pc EXCEPT ![r] = "done"]
                     /\ resp' = [resp EXCEPT ![r] = InsightsResponse(items)]
  /\ UNCHANGED <<sharedVars, loop, tickLogged, route, query, cur, nxt,
                 rngBusy, raced, probeVars>>

\* handleLatestInsights returning the error of a failed seed insert.
InsightsSeedErrorReturned(r) ==
  /\ Alive
  /\ route[r] = "insights"
  /\ pc[r] = "seed"
  /\ PoolHasRoom
  /\ \/ /\ Len(ilog) < MaxIns
        /\ ilog' = Append(ilog, InsightRow(ilog, SeedInsight, now))
        /\ resp' = [resp EXCEPT ![r] =
                      InsightsResponse(<<InsertInsightResult(ilog, SeedInsight, now)>>)]
     \/ \E err \in StoreErrors :
          /\ ilog' = ilog
          /\ resp' = [resp EXCEPT ![r] =
                        ErrorResponse(StatusInternalServerError, err)]
  /\ pc' = [pc EXCEPT ![r] = "done"]
  /\ UNCHANGED <<conns, now, cancelled, mlog, loop, tickLogged, route, query, limit,
                 cur, nxt, rngBusy, raced, probeVars>>

\* handleLatestInsights after it found no row: InsertInsight of the seed; on
\* an error (logged) the response carries the seed with CreatedAt time.Now().
InsightsSeed(r) ==
  /\ Alive
  /\ route[r] = "insights"
  /\ pc[r] = "seed"
  /\ PoolHasRoom
  /\ \/ /\ Len(ilog) < MaxIns
        /\ ilog' = Append(ilog, InsightRow(ilog, SeedInsight, now))
        /\ resp' = [resp EXCEPT ![r] =
                      InsightsResponse(<<InsertInsightResult(ilog, SeedInsight, now)>>)]
     \/ /\ ilog' = ilog
        /\ resp' = [resp EXCEPT ![r] =
                      InsightsResponse(<<Insight(0, SeedInsight.title,
                                                 SeedInsight.message,
                                                 SeedInsight.source, now)>>)]
  /\ pc' = [pc EXCEPT ![r] = "done"]
  /\ UNCHANGED <<conns, now, cancelled, mlog, loop, tickLogged, route, query, limit,
                 cur, nxt, rngBusy, raced, probeVars>>

\* handleCreateInsight without the defaultMetrics branch of an empty table.
CreateReadNoBaseline(r) ==
  /\ Alive
  /\ route[r] = "create"
  /\ pc[r] = "read"
  /\ Decode(query[r]).ok => PoolHasRoom
  /\ IF ~Decode(query[r]).ok
     THEN /\ pc' = [pc EXCEPT ![r] = "done"]
          /\ resp' = [resp EXCEPT ![r] =
                        ErrorResponse(StatusBadRequest, "invalid character")]
          /\ cur' = cur
     ELSE \/ \E err \in StoreErrors :
               /\ pc' = [pc EXCEPT ![r] = "done"]
               /\ resp' = [resp EXCEPT ![r] =
                             ErrorResponse(StatusInternalServerError, err)]
               /\ cur' = cur
          \/ \E m \in LatestMetrics(mlog) :
               /\ cur' = [cur EXCEPT ![r] = m]
               /\ pc' = [pc EXCEPT ![r] = "insert"]
               /\ resp' = resp
  /\ UNCHANGED <<sharedVars, loop, tickLogged, route, query, limit, nxt,
                 rngBusy, raced, probeVars>>

\* handleCreateInsight, to the call of buildMetricInsight: the body is
\* decoded (400 when that fails), then LatestMetrics.
CreateRead(r) ==
  /\ Alive
  /\ route[r] = "create"
  /\ pc[r] = "read"
  /\ Decode(query[r]).ok => PoolHasRoom
  /\ IF ~Decode(query[r]).ok
     THEN /\ pc' = [pc EXCEPT ![r] = "done"]
          /\ resp' = [resp EXCEPT ![r] =
                        ErrorResponse(StatusBadRequest, "invalid character")]
          /\ cur' = cur
     ELSE \/ \E err \in StoreErrors :
               /\ pc' = [pc EXCEPT ![r] = "done"]
               /\ resp' = [resp EXCEPT ![r] =
                             ErrorResponse(StatusInternalServerError, err)]
               /\ cur' = cur
          \/ \E m \in LatestMetrics(mlog) :
               /\ cur' = [cur EXCEPT ![r] =
                            IF IsZero(m.at) THEN defaultMetrics(now) ELSE m]
               /\ pc' = [pc EXCEPT ![r] = "insert"]
               /\ resp' = resp
  /\ UNCHANGED <<sharedVars, loop, tickLogged, route, query, limit, nxt,
                 rngBusy, raced, probeVars>>

\* The insight handleCreateInsight builds for a body and a snapshot.
MetricInsight(body, metrics) ==
  [title |-> buildMetricInsight(Decode(body).MetricKey, metrics)[1],
   message |-> buildMetricInsight(Decode(body).MetricKey, metrics)[2],
   source |-> "metric"]

\* handleCreateInsight from buildMetricInsight on.  The table takes rows up
\* to `rows`.
CreateInsertUpTo(r, rows) ==
  /\ Alive
  /\ route[r] = "create"
  /\ pc[r] = "insert"
  /\ PoolHasRoom
  /\ \/ /\ Len(ilog) < rows
        /\ ilog' = Append(ilog, InsightRow(ilog, MetricInsight(query[r], cur[r]), now))
        /\ resp' = [resp EXCEPT ![r] =
                      [status |-> StatusOK,
                       data |-> InsertInsightResult(ilog,
                                  MetricInsight(query[r], cur[r]), now),
                       error |-> ""]]
     \/ \E err \in StoreErrors :
          /\ ilog' = ilog
          /\ resp' = [resp EXCEPT ![r] =
                        ErrorResponse(StatusInternalServerError, err)]
  /\ pc' = [pc EXCEPT ![r] = "done"]
  /\ cur' = [cur EXCEPT ![r] = ZeroMetrics]
  /\ UNCHANGED <<conns, now, cancelled, mlog, loop, tickLogged, route, query, limit,
                 nxt, rngBusy, raced, probeVars>>

CreateInsert(r) == CreateInsertUpTo(r, MaxIns)

(* ---------------------------- specification --------------------------- *)
Scheduler ==
  \/ SchedDone
  \/ SchedMetricsTick
  \/ SchedMetricsRead
  \/ SimBegin(MetricsTick)
  \/ SimEnd(MetricsTick)
  \/ SimPanic(MetricsTick)
  \/ SchedMetricsInsert
  \/ SchedInsightTick
  \/ SchedInsightRead
  \/ SchedInsightInsert

Request(r) ==
  \/ Start(r, "latest")
  \/ Start(r, "simulate")
  \/ LatestRead(r)
  \/ LatestSeed(r)
  \/ SimulateRead(r)
  \/ SimBegin(r)
  \/ SimEnd(r)
  \/ SimPanic(r)
  \/ SimulateInsert(r)

Environment ==
  \/ ClockAdvance
  \/ Cancel

Next == Scheduler \/ Environment \/ \E r \in Reqs : Request(r)

Spec == Init /\ [][Next]_vars

\* The goroutine of StartSimulation keeps running while it has a step to take,
\* and a select that finds ctx.Done() ready again and again picks it at last
\* (it chooses among the ready cases at random).
FairSpec == Spec /\ WF_vars(Scheduler) /\ SF_vars(SchedDone)

(* ------------------- simulateMetrics as a function -------------------- *)
MaxDrawVals == 3   \* values each draw ranges over

\* Draws in hundredths: the least, the greatest, and values in between.
DrawVals == {(99 * i) \div (MaxDrawVals - 1) : i \in 0..(MaxDrawVals - 1)}

\* Previous snapshots: each field below, at the ends of, and above its range
\* (rows seeded directly can lie outside), as metrics_snapshot holds them.
PrevSnapshots ==
  {Metrics(rev, gro, sen, bkl, 0) :
     rev \in {38900, RevenueMin, RevenueMax, 87000},
     gro \in {50000, GrowthMin, GrowthMax, 400000},
     sen \in {500000, SentimentMin, SentimentMax, 950000},
     bkl \in {90, BacklogMin, BacklogMax, 200}}

InitFunction(inputs) ==
  /\ now = 0
  /\ cancelled = FALSE
  /\ mlog = <<>>
  /\ ilog = <<>>
  /\ loop = "running"
  /\ tickLogged = FALSE
  /\ pc = [p \in Procs |-> "idle"]
  /\ route = [r \in Reqs |-> "none"]
  /\ query = [r \in Reqs |-> <<>>]
  /\ limit = [r \in Reqs |-> 0]
  /\ cur = [p \in Procs |-> ZeroMetrics]
  /\ nxt = [p \in Procs |-> ZeroMetrics]
  /\ resp = [r \in Reqs |-> NoResponse]
  /\ rngBusy = {}
  /\ raced = {}
  /\ conns = {}
  /\ arg \in inputs
  /\ res = <<>>

processVars == <<loop, tickLogged, pc, route, query, limit, cur, nxt, resp, rngBusy, raced>>

InitSim == InitFunction([previous : PrevSnapshots, d : [1..4 -> DrawVals]])

\* next := simulateMetrics(s.rng, metrics)
SimCompute ==
  /\ res = <<>>
  /\ res' = <<simulateMetrics(arg.d, arg.previous, now)>>
  /\ UNCHANGED <<sharedVars, processVars, arg>>

\* s.store.InsertMetrics(ctx, next)
SimPersist ==
  /\ res # <<>>
  /\ mlog = <<>>
  /\ mlog' = InsertMetrics(mlog, res[1])
  /\ UNCHANGED <<conns, now, cancelled, ilog, processVars, probeVars>>

NextSim == SimCompute \/ SimPersist

SpecSim == InitSim /\ [][NextSim]_vars

(* ----------------------- Store.Trend as a function -------------------- *)
MaxRows == 3      \* rows of metrics_snapshot when Trend is called
MaxLimit == 4     \* greatest limit passed to Trend
MaxSecond == 2    \* created_at ranges over the seconds 0..MaxSecond

\* Tables of up to MaxRows rows; row i carries revenue i so that rows differ.
TrendLogs ==
  UNION {{[i \in 1..n |-> Metrics(i * 100, 186000, 720000, 128, 2 * at[i])] :
            at \in [1..n -> 0..MaxSecond]} : n \in 0..MaxRows}

InitTrend == InitFunction([log : TrendLogs, limit : 1..MaxLimit])

\* points, err := s.store.Trend(ctx, limit), with no error
TrendCall ==
  /\ res = <<>>
  /\ \E points \in Trend(arg.log, arg.limit) : res' = <<points>>
  /\ UNCHANGED <<sharedVars, processVars, arg>>

NextTrend == TrendCall

SpecTrend == InitTrend /\ [][NextTrend]_vars

(* ------------- GET /metrics/latest called again and again ------------- *)
MaxCalls == 2     \* calls the client makes, one after the other

\* Tables of up to MaxRows insights; row i has id i.
InsightLogs ==
  UNION {{[i \in 1..n |-> Insight(i, "AI strategy advisor", "steady", "auto", 2 * at[i])] :
            at \in [1..n -> 0..MaxSecond]} : n \in 0..MaxRows}

InitInsights == InitFunction([log : InsightLogs, limit : 1..MaxLimit])

\* items, err := s.store.LatestInsights(r.Context(), limit), with no error
InsightsCall ==
  /\ res = <<>>
  /\ \E items \in LatestInsights(arg.log, arg.limit) : res' = <<items>>
  /\ UNCHANGED <<sharedVars, processVars, arg>>

NextInsights == InsightsCall

SpecInsights == InitInsights /\ [][NextInsights]_vars

\* Snapshots just below, at and just above each threshold of buildAutoInsight,
\* in steps of the columns' precision.
AutoSnapshots ==
  {Metrics(rev, gro, sen, bkl, 0) :
     rev \in {45900, 46000, 46100, 50900, 51000, 51100},
     gro \in {GrowthMin, GrowthMax},
     sen \in {659900, 660000, 660100, 739900, 740000, 740100},
     bkl \in {119, 120, 121, 149, 150, 151}}

InitAutoInsight == InitFunction([metrics : AutoSnapshots])

\* Message: buildAutoInsight(metrics)
AutoInsightCompute ==
  /\ res = <<>>
  /\ res' = <<buildAutoInsight(arg.metrics)>>
  /\ UNCHANGED <<sharedVars, processVars, arg>>

NextAutoInsight == AutoInsightCompute

SpecAutoInsight == InitAutoInsight /\ [][NextAutoInsight]_vars

MaxPoolReqs == 10   \* requests in flight at once
MaxPoolLog == 1     \* rows of metrics_snapshot

PoolReqs == 1..MaxPoolReqs

\* The process with MaxPoolReqs request goroutines, on a table with a row.
InitPool ==
  /\ now = 0
  /\ cancelled = FALSE
  /\ mlog = <<MetricsRow(Metrics(87022, 186000, 720000, 128, 0))>>
  /\ ilog = <<>>
  /\ loop = "running"
  /\ tickLogged = FALSE
  /\ pc = [p \in Ticks \cup PoolReqs |-> "idle"]
  /\ route = [r \in PoolReqs |-> "none"]
  /\ query = [r \in PoolReqs |-> <<>>]
  /\ limit = [r \in PoolReqs |-> 0]
  /\ cur = [p \in Ticks \cup PoolReqs |-> ZeroMetrics]
  /\ nxt = [p \in Ticks \cup PoolReqs |-> ZeroMetrics]
  /\ resp = [r \in PoolReqs |-> NoResponse]
  /\ rngBusy = {}
  /\ raced = {}
  /\ conns = {}
  /\ arg = <<>>
  /\ res = <<>>

\* GET /metrics/latest arrives; the requests are numbered in the order in
\* which they arrive and a slot serves one request.
PoolStart(r) ==
  /\ pc[r] = "idle"
  /\ \A q \in PoolReqs : q < r => pc[q] # "idle"
  /\ Start(r, "latest")

\* s.db.QueryRowContext(ctx, query) of LatestMetrics takes a connection of the
\* pool, which it gets only while fewer than MaxOpenConns are in use.  Among
\* the requests the earlier one is the first to reach its call.
ConnAcquire(p) ==
  /\ Alive
  /\ p \in Ticks => loop = "running"
  /\ pc[p] = "read"
  /\ p \notin conns
  /\ PoolHasRoom
  /\ \A q \in PoolReqs : (p \in PoolReqs /\ q < p) => (q \in conns \/ pc[q] = "done")
  /\ conns' = conns \cup {p}
  /\ UNCHANGED <<now, cancelled, mlog, ilog, loop, tickLogged, pc, route,
                 query, limit, cur, nxt, resp, rngBusy, raced, probeVars>>

\* The query of handleLatestMetrics returns, however late, and Scan gives the
\* connection back.  The store is slow here, not failing: the query succeeds.
LatestReadReturns(r) ==
  /\ Alive
  /\ route[r] = "latest"
  /\ pc[r] = "read"
  /\ r \in conns
  /\ conns' = conns \ {r}
  /\ \E m \in LatestMetrics(mlog) :
          IF IsZero(m.at)
          THEN /\ cur' = [cur EXCEPT ![r] = defaultMetrics(now)]
               /\ pc' = [pc EXCEPT ![r] = "seed"]
               /\ resp' = resp
          ELSE /\ resp' = [resp EXCEPT ![r] = DataResponse(m)]
               /\ pc' = [pc EXCEPT ![r] = "done"]
               /\ cur' = cur
  /\ UNCHANGED <<now, cancelled, mlog, ilog, loop, tickLogged, route, query,
                 limit, nxt, rngBusy, raced, probeVars>>

\* The query of the metrics tick returns and gives the connection back.
SchedMetricsReadReturns ==
  /\ loop = "running"
  /\ pc[MetricsTick] = "read"
  /\ MetricsTick \in conns
  /\ conns' = conns \ {MetricsTick}
  /\ \E ok \in SchedCallOutcomes :
       /\ IF ok
          THEN /\ \E m \in LatestMetrics(mlog) :
                    cur' = [cur EXCEPT ![MetricsTick] =
                              IF IsZero(m.at) THEN defaultMetrics(now) ELSE m]
               /\ pc' = [pc EXCEPT ![MetricsTick] = "sim"]
          ELSE /\ pc' = [pc EXCEPT ![MetricsTick] = "idle"]
               /\ cur' = cur
  /\ UNCHANGED <<now, cancelled, mlog, ilog, loop, tickLogged, route, query,
                 limit, nxt, resp, rngBusy, raced, probeVars>>

\* Requests and the metrics tick, each store read in two steps: the call
\* takes a connection, and the query returns.
NextPool ==
  \/ \E r \in PoolReqs : PoolStart(r)
  \/ \E p \in PoolReqs \cup {MetricsTick} : ConnAcquire(p)
  \/ \E r \in PoolReqs : LatestReadReturns(r)
  \/ SchedMetricsTick
  \/ SchedMetricsReadReturns
  \/ SimBegin(MetricsTick)
  \/ SimEnd(MetricsTick)
  \/ SchedMetricsInsertUpTo(MaxPoolLog)

SpecPool == InitPool /\ [][NextPool]_vars

MaxCorsLen == 3      \* characters of ALLOWED_ORIGINS
MaxOriginLen == 2    \* characters of the Origin header

\* Strings of up to n characters of an alphabet.
StringsUpTo(chars, n) == UNION {[1..k -> chars] : k \in 0..n}

CorsConfigs == StringsUpTo({"a", "B", "*", ",", " "}, MaxCorsLen)

CorsOrigins == StringsUpTo({"a", "A", "b", "*"}, MaxOriginLen)

InitCors ==
  InitFunction([allowed : CorsConfigs, origin : CorsOrigins,
                method : {"GET", "POST", "OPTIONS"}])

\* One request through the handler corsMiddleware(allowedOrigins) returns.
CorsServe ==
  /\ res = <<>>
  /\ res' = <<corsMiddleware(arg.allowed, arg.origin, arg.method)>>
  /\ UNCHANGED <<sharedVars, processVars, arg>>

NextCors == CorsServe

SpecCors == InitCors /\ [][NextCors]_vars

MetricWords ==
  {<<"r", "e", "v", "e", "n", "u", "e">>,
   <<"g", "r", "o", "w", "t", "h">>,
   <<"s", "e", "n", "t", "i", "m", "e", "n", "t">>,
   <<"b", "a", "c", "k", "l", "o", "g">>}

ToUpperChar(c) ==
  IF \E i \in 1..26 : Lower[i] = c
  THEN Upper[CHOOSE i \in 1..26 : Lower[i] = c]
  ELSE c

\* The spellings of a lower-case word in every mix of letter cases.
RECURSIVE CaseVariants(_)
CaseVariants(w) ==
  IF w = <<>> THEN {<<>>}
  ELSE {<<c>> \o v : c \in {w[1], ToUpperChar(w[1])}, v \in CaseVariants(Tail(w))}

\* Keys that name no metric: empty, unknown, a prefix, a plural, a padded one.
OtherKeys ==
  {<<>>, <<"r", "e", "v", "e", "n", "u">>,
   <<"r", "e", "v", "e", "n", "u", "e", "s">>,
   <<"r", "e", "v", "e", "n", "u", "e", " ">>,
   <<"1">>}
    \cup CaseVariants(<<"c", "h", "u", "r", "n">>)

InsightKeys == UNION {CaseVariants(w) : w \in MetricWords} \cup OtherKeys

InsightSnapshots ==
  {Metrics(48200, 186000, 720000, 128, 0), Metrics(87022, 50000, 950000, 90, 2)}

InitMetricInsight == InitFunction([key : InsightKeys, metrics : InsightSnapshots])

\* title, message := buildMetricInsight(payload.MetricKey, metrics)
MetricInsightCompute ==
  /\ res = <<>>
  /\ res' = <<buildMetricInsight(arg.key, arg.metrics)>>
  /\ UNCHANGED <<sharedVars, processVars, arg>>

NextMetricInsight == MetricInsightCompute

SpecMetricInsight == InitMetricInsight /\ [][NextMetricInsight]_vars

InitLatest == InitFunction({<<>>})

\* The client sends GET /metrics/latest.
LatestCall ==
  /\ pc[1] = "idle"
  /\ Len(res) < MaxCalls
  /\ Start(1, "latest")

\* The client receives the response; res lists the responses so far.
Collect ==
  /\ pc[1] = "done"
  /\ res' = Append(res, resp[1])
  /\ pc' = [pc EXCEPT ![1] = "idle"]
  /\ resp' = [resp EXCEPT ![1] = NoResponse]
  /\ UNCHANGED <<sharedVars, loop, tickLogged, route, query, limit, cur, nxt,
                 rngBusy,
                 raced, arg>>

NextLatest == ClockAdvance \/ LatestCall \/ LatestRead(1) \/ LatestSeed(1) \/ Collect

SpecLatest == InitLatest /\ [][NextLatest]_vars

(* --------------- the producers writing to the two tables -------------- *)
MaxWriterLog == 2   \* rows metrics_snapshot can take
MaxWriterIns == 2   \* rows insights can take

\* Bodies of POST /insights: a key in mixed case, and one that does not decode.
WriterBodies == {<<"json", <<"B", "a", "c", "k", "l", "o", "g">>>>, <<"{">>}

\* The scheduler's two ticks and one client that calls every route, with no
\* cancellation.
NextWriters ==
  \/ SchedMetricsTick
  \/ SchedMetricsRead
  \/ SimBegin(MetricsTick)
  \/ SimEnd(MetricsTick)
  \/ SimPanic(MetricsTick)
  \/ SchedMetricsInsertUpTo(MaxWriterLog)
  \/ SchedInsightTick
  \/ SchedInsightRead
  \/ SchedInsightInsertUpTo(MaxWriterIns)
  \/ Start(1, "simulate")
  \/ SimulateRead(1)
  \/ SimBegin(1)
  \/ SimEnd(1)
  \/ SimPanic(1)
  \/ SimulateInsertUpTo(1, MaxWriterLog)
  \/ \E body \in WriterBodies : StartQuery(1, "create", body)
  \/ CreateRead(1)
  \/ CreateInsertUpTo(1, MaxWriterIns)
  \/ Start(1, "latest")
  \/ LatestRead(1)
  \/ LatestSeed(1)
  \/ Start(1, "trend")
  \/ TrendRead(1)
  \/ TrendSeedUpTo(1, MaxWriterLog)
  \/ Start(1, "insights")
  \/ InsightsRead(1)
  \/ InsightsSeed(1)

SpecWriters == Init /\ [][NextWriters]_vars

\* The scheduler's two ticks alone, with no cancellation; no other goroutine
\* draws from the rand.Rand, so no draw of the tick is torn.
NextTicks ==
  \/ SchedMetricsTick
  \/ SchedMetricsRead
  \/ SimBegin(MetricsTick)
  \/ SimEnd(MetricsTick)
  \/ SchedMetricsInsertUpTo(MaxWriterLog)
  \/ SchedInsightTick
  \/ SchedInsightRead
  \/ SchedInsightInsertUpTo(MaxWriterIns)

SpecTicks == Init /\ [][NextTicks]_vars

(* ------------- requests that seed, two at a time, and a tick ---------- *)
MaxSeedingLog == 3    \* rows metrics_snapshot can take
MaxSeedingIns == 2    \* rows insights can take

\* handleLatestMetrics after it found no row, the table taking `rows` rows.
LatestSeedUpTo(r, rows) ==
  /\ Alive
  /\ route[r] = "latest"
  /\ pc[r] = "seed"
  /\ PoolHasRoom
  /\ \/ /\ Len(mlog) < rows
        /\ mlog' = InsertMetricsAt(mlog, cur[r])
     \/ mlog' = mlog
  /\ resp' = [resp EXCEPT ![r] = DataResponse(cur[r])]
  /\ pc' = [pc EXCEPT ![r] = "done"]
  /\ cur' = [cur EXCEPT ![r] = ZeroMetrics]
  /\ UNCHANGED <<conns, now, cancelled, ilog, loop, tickLogged, route, query, limit,
                 nxt, rngBusy, raced, probeVars>>

\* handleLatestInsights after it found no row, the table taking `rows` rows.
InsightsSeedUpTo(r, rows) ==
  /\ Alive
  /\ route[r] = "insights"
  /\ pc[r] = "seed"
  /\ PoolHasRoom
  /\ \/ /\ Len(ilog) < rows
        /\ ilog' = Append(ilog, InsightRow(ilog, SeedInsight, now))
        /\ resp' = [resp EXCEPT ![r] =
                      InsightsResponse(<<InsertInsightResult(ilog, SeedInsight, now)>>)]
     \/ /\ ilog' = ilog
        /\ resp' = [resp EXCEPT ![r] =
                      InsightsResponse(<<Insight(0, SeedInsight.title,
                                                 SeedInsight.message,
                                                 SeedInsight.source, now)>>)]
  /\ pc' = [pc EXCEPT ![r] = "done"]
  /\ UNCHANGED <<conns, now, cancelled, mlog, loop, tickLogged, route, query, limit,
                 cur, nxt, rngBusy, raced, probeVars>>

\* One request of a client to a route that seeds, served to its response.
SeedingRequest(r) ==
  \/ Start(r, "latest")
  \/ LatestRead(r)
  \/ LatestSeedUpTo(r, MaxSeedingLog)
  \/ Start(r, "trend")
  \/ TrendRead(r)
  \/ TrendSeedUpTo(r, MaxSeedingLog)
  \/ Start(r, "insights")
  \/ InsightsRead(r)
  \/ InsightsSeedUpTo(r, MaxSeedingIns)

\* The GET routes served to concurrent clients while the insights tick runs.
NextSeeding ==
  \/ \E r \in Reqs : SeedingRequest(r)
  \/ SchedInsightTick
  \/ SchedInsightRead
  \/ SchedInsightInsertUpTo(MaxSeedingIns)

SpecSeeding == InitFunction({<<>>}) /\ [][NextSeeding]_vars

(* ----------------- the two POST routes, one client -------------------- *)
\* POST /insights and POST /metrics/simulate called again and again on tables
\* that start empty.
NextPosts ==
  \/ \E body \in WriterBodies : StartQuery(1, "create", body)
  \/ CreateRead(1)
  \/ CreateInsertUpTo(1, MaxWriterIns)
  \/ Start(1, "simulate")
  \/ SimulateRead(1)
  \/ SimBegin(1)
  \/ SimEnd(1)
  \/ SimulateInsertUpTo(1, MaxWriterLog)

SpecPosts == InitFunction({<<>>}) /\ [][NextPosts]_vars

(* ------------- insights written and read back, the clock running ------ *)
\* One request to a route that returns insights, served to its response.
InsightRequest(r) ==
  \/ Start(r, "insights")
  \/ InsightsRead(r)
  \/ InsightsSeedUpTo(r, MaxSeedingIns)
  \/ StartQuery(r, "create", <<"json", <<>>>>)
  \/ CreateRead(r)
  \/ CreateInsertUpTo(r, MaxSeedingIns)

\* Clients posting insights and reading them back while time passes.
NextReadBack ==
  \/ ClockAdvance
  \/ \E r \in Reqs : InsightRequest(r)

SpecReadBack == InitFunction({<<>>}) /\ [][NextReadBack]_vars

(* ------------- two producers of snapshots, the clock running ---------- *)
MaxRaceLog == 3     \* rows metrics_snapshot can take

\* The scheduler's metrics tick and one client posting to /metrics/simulate.
NextRace ==
  \/ ClockAdvance
  \/ SchedMetricsTick
  \/ SchedMetricsRead
  \/ SimBegin(MetricsTick)
  \/ SimEnd(MetricsTick)
  \/ SimPanic(MetricsTick)
  \/ SchedMetricsInsertUpTo(MaxRaceLog)
  \/ Start(1, "simulate")
  \/ SimulateRead(1)
  \/ SimBegin(1)
  \/ SimEnd(1)
  \/ SimPanic(1)
  \/ SimulateInsertUpTo(1, MaxRaceLog)

SpecRace == Init /\ [][NextRace]_vars

(* ----------------- one client calling the five routes ----------------- *)
MaxQueryLen == 2     \* characters of a window or limit query value
MaxSeedLog == 12     \* rows metrics_snapshot can take from handleTrend
MaxHandlerLog == 2   \* rows metrics_snapshot can take from handleSimulateMetrics
MaxHandlerIns == 2   \* rows insights can take from handleCreateInsight

QueryChars == {"0", "1", "7", "-", "+", "x"}

\* Values of ?window= and ?limit=: absent (empty), integers with and without a
\* sign, and strings that are no integers.
QueryValues == UNION {[1..n -> QueryChars] : n \in 0..MaxQueryLen}

\* Keys of POST /insights: absent, the four metrics in some letter case, and
\* a key that names no metric.
HandlerKeys ==
  {<<>>,
   <<"r", "e", "v", "e", "n", "u", "e">>,
   <<"G", "R", "O", "W", "T", "H">>,
   <<"S", "e", "n", "t", "i", "m", "e", "n", "t">>,
   <<"b", "a", "c", "k", "L", "O", "G">>,
   <<"c", "h", "u", "r", "n">>}

\* Bodies of POST /insights: those that decode, and one that does not.
HandlerBodies == {<<"json", key>> : key \in HandlerKeys} \cup {<<"{">>}

InitHandlers == InitFunction({<<>>})

\* GET /metrics/trend?window=q called again and again.
NextTrendRoute ==
  \/ \E q \in QueryValues : StartQuery(1, "trend", q)
  \/ TrendRead(1)
  \/ TrendSeedUpTo(1, MaxSeedLog)

SpecTrendRoute == InitHandlers /\ [][NextTrendRoute]_vars

\* GET /insights/latest?limit=q and POST /insights called again and again.
NextInsightRoutes ==
  \/ \E q \in QueryValues : StartQuery(1, "insights", q)
  \/ InsightsRead(1)
  \/ InsightsSeed(1)
  \/ \E body \in HandlerBodies : StartQuery(1, "create", body)
  \/ CreateRead(1)
  \/ CreateInsertUpTo(1, MaxHandlerIns)

\* The insight routes start on a metrics table that is empty or holds a row.
InitInsightRoutes ==
  /\ now = 0
  /\ cancelled = FALSE
  /\ mlog \in InitialLogs
  /\ ilog = <<>>
  /\ loop = "running"
  /\ tickLogged = FALSE
  /\ pc = [p \in Procs |-> "idle"]
  /\ route = [r \in Reqs |-> "none"]
  /\ query = [r \in Reqs |-> <<>>]
  /\ limit = [r \in Reqs |-> 0]
  /\ cur = [p \in Procs |-> ZeroMetrics]
  /\ nxt = [p \in Procs |-> ZeroMetrics]
  /\ resp = [r \in Reqs |-> NoResponse]
  /\ rngBusy = {}
  /\ raced = {}
  /\ conns = {}
  /\ arg = <<>>
  /\ res = <<>>

SpecInsightRoutes == InitInsightRoutes /\ [][NextInsightRoutes]_vars

\* POST /insights called again and again.
NextCreateRoute ==
  \/ \E body \in HandlerBodies : StartQuery(1, "create", body)
  \/ CreateRead(1)
  \/ CreateInsertUpTo(1, MaxHandlerIns)

SpecCreateRoute == InitInsightRoutes /\ [][NextCreateRoute]_vars

\* The five routes called one after the other, with few inputs each.
NextHandlers ==
  \/ Start(1, "latest")
  \/ LatestRead(1)
  \/ LatestSeed(1)
  \/ Start(1, "simulate")
  \/ SimulateRead(1)
  \/ SimBegin(1)
  \/ SimEnd(1)
  \/ SimulateInsertUpTo(1, MaxHandlerLog)
  \/ \E q \in {<<>>, <<"7">>} : StartQuery(1, "trend", q)
  \/ TrendRead(1)
  \/ TrendSeedUpTo(1, MaxSeedLog)
  \/ \E q \in {<<>>, <<"0">>} : StartQuery(1, "insights", q)
  \/ InsightsRead(1)
  \/ InsightsSeed(1)
  \/ \E body \in {<<"json", <<"r", "e", "v", "e", "n", "u", "e">>>>, <<"{">>} :
       StartQuery(1, "create", body)
  \/ CreateRead(1)
  \/ CreateInsertUpTo(1, MaxHandlerIns)

SpecHandlers == InitHandlers /\ [][NextHandlers]_vars

(* ------------------------------- claims ------------------------------- *)
\* C1: the generator shared by the scheduler and by POST /metrics/simulate is
\* never drawn from by two goroutines at once: no reachable state has two
\* draws in progress.
C1_DrawsMutuallyExcluded == Cardinality(rngBusy) <= 1

InRanges(m) ==
  /\ RevenueMin <= m.rev /\ m.rev <= RevenueMax
  /\ GrowthMin <= m.gro /\ m.gro <= GrowthMax
  /\ SentimentMin <= m.sen /\ m.sen <= SentimentMax
  /\ BacklogMin <= m.bkl /\ m.bkl <= BacklogMax

\* C2: for every previous snapshot, inside or outside the ranges, and every
\* four draws, the snapshot simulateMetrics returns and the row InsertMetrics
\* persists for it have revenue in [3.9, 6.2], growth in [10, 28], sentiment
\* in [58, 90] and backlog in [95, 180].
C2_SimulatorWithinRanges ==
  /\ res # <<>> => InRanges(res[1])
  /\ \A i \in 1..Len(mlog) : InRanges(mlog[i])

\* A previous snapshot above every range was simulated, clamped and persisted.
C2_Witness ==
  /\ res # <<>>
  /\ arg.previous.rev > RevenueMax /\ arg.previous.bkl > BacklogMax
  /\ arg.previous.gro > GrowthMax /\ arg.previous.sen > SentimentMax
  /\ res[1].rev = RevenueMax /\ res[1].bkl = BacklogMax
  /\ Len(mlog) = 1 /\ mlog[1].rev = RevenueMax

Rows(s) == {s[i] : i \in 1..Len(s)}

\* C6: for every table and every limit >= 1, Trend returns exactly
\* min(limit, rows) points, they are the rows of greatest created_at, and they
\* come in non-decreasing created_at order.
C6_TrendMostRecentAscending ==
  res # <<>> =>
    LET points == res[1] IN
    /\ Len(points) = Min(arg.limit, Len(arg.log))
    /\ Rows(points) \subseteq Rows(arg.log)
    /\ Cardinality(Rows(points)) = Len(points)
    /\ \A x \in Rows(arg.log) \ Rows(points) : \A y \in Rows(points) : x.at <= y.at
    /\ \A i, j \in 1..Len(points) : i < j => points[i].at <= points[j].at

\* Trend cut a table that is not in created_at order down to two rows of
\* different created_at.
C6_Witness ==
  /\ res # <<>>
  /\ Len(arg.log) = 3 /\ arg.limit = 2
  /\ arg.log[1].at > arg.log[2].at /\ arg.log[3].at > arg.log[1].at
  /\ res[1] = <<arg.log[1], arg.log[3]>>

Values(m) == <<m.rev, m.gro, m.sen, m.bkl>>

BaselineValues == <<48200, 186000, 720000, 128>>

\* C3: when GET /metrics/latest reads an empty metrics log it makes one
\* attempt to persist the baseline and then responds 200 with revenue 4.82,
\* growth 18.6, sentiment 72, backlog 128, whether the attempt succeeds
\* (the log gains that one row) or fails (the log is unchanged).
C3_SeedOnEmptyLatest ==
  [][\A r \in Reqs :
       /\ (route[r] = "latest" /\ pc[r] = "read" /\ pc'[r] # "read" /\ mlog = <<>>)
            => \/ pc'[r] = "seed" /\ Values(cur'[r]) = BaselineValues /\ mlog' = mlog
               \/ pc'[r] = "done" /\ resp'[r].error \in StoreErrors
       /\ (route[r] = "latest" /\ pc[r] = "seed" /\ pc'[r] # "seed")
            => /\ pc'[r] = "done"
               /\ resp'[r].status = StatusOK
               /\ Values(resp'[r].data) = BaselineValues
               /\ \/ mlog' = mlog
                  \/ mlog' = Append(mlog, MetricsRow(resp'[r].data))]_vars

\* The seed write failed, the log is still empty, and the response is the
\* baseline with status 200.
C3_Witness ==
  \E r \in Reqs :
    /\ route[r] = "latest" /\ pc[r] = "done" /\ resp[r].status = StatusOK
    /\ Values(resp[r].data) = BaselineValues
    /\ mlog = <<>> /\ AtSelect /\ \A q \in Reqs \ {r} : pc[q] = "idle"

\* C4: consecutive calls of GET /metrics/latest against an initially empty
\* store, with no other writer, all return the baseline values, whether the
\* earlier call's seed was persisted or not.
C4_SeedIdempotent ==
  \A i \in 1..Len(res) :
    res[i].status = StatusOK => Values(res[i].data) = BaselineValues

\* The first call seeded the store and the second read the seed back.
C4_Witness ==
  /\ Len(res) = 2 /\ Len(mlog) = 1
  /\ res[1].status = StatusOK /\ res[2].status = StatusOK
  /\ res[1].data.at = 1 /\ res[2].data = mlog[1]

\* C5 as stated: GET /metrics/latest always responds with status 200.
C5_LatestAlways200 ==
  \A r \in Reqs : route[r] = "latest" /\ pc[r] = "done" => resp[r].status = StatusOK

\* C5 as amended: GET /metrics/latest responds 200 with a snapshot unless its
\* read fails, and 500 with the store's error exactly when its read fails; the
\* outcome of the seed write never changes the status.
C5_Latest200UnlessReadFails ==
  [][\A r \in Reqs :
       (route[r] = "latest" /\ pc[r] # "done" /\ pc'[r] = "done") =>
         IF pc[r] = "seed"
         THEN resp'[r].status = StatusOK /\ resp'[r].error = ""
         ELSE \/ /\ resp'[r].status = StatusInternalServerError
                 /\ resp'[r].error \in StoreErrors
              \/ /\ resp'[r].status = StatusOK /\ resp'[r].error = ""
                 /\ resp'[r].data \in LatestMetrics(mlog)
                 /\ ~IsZero(resp'[r].data.at)]_vars

\* One request was answered 500 after a failed read, another 200 although its
\* seed write failed.
C5_Witness ==
  \E r, q \in Reqs :
    /\ route[r] = "latest" /\ pc[r] = "done"
    /\ resp[r].status = StatusInternalServerError
    /\ route[q] = "latest" /\ pc[q] = "done" /\ resp[q].status = StatusOK
    /\ mlog = <<>>

\* A store call of tick t failed: the tick left its read or its insert for
\* the select without a row written.
TickCallFailed(t) ==
  /\ pc[t] \in {"read", "insert"}
  /\ pc'[t] = "idle"
  /\ pc[t] = "insert" => mlog' = mlog /\ ilog' = ilog

\* C7: when the read or the write of a metrics tick or an insights tick
\* fails, the loop of StartSimulation keeps running and is back at its select
\* with nothing written and nothing kept of the failed tick (a failed write
\* is logged), so that a tick of either kind can begin; and every tick that
\* begins starts from its own read with fresh locals.
C7_SchedulerSurvivesTickFailure ==
  [][\A t \in Ticks :
       /\ TickCallFailed(t) =>
            /\ loop' = "running" /\ AtSelect'
            /\ pc[t] = "insert" => tickLogged'
            /\ mlog' = mlog /\ ilog' = ilog
            /\ cur'[t] = ZeroMetrics /\ nxt'[t] = ZeroMetrics
       /\ (pc[t] = "idle" /\ pc'[t] # "idle") =>
            /\ pc'[t] = "read"
            /\ cur'[t] = ZeroMetrics /\ nxt'[t] = ZeroMetrics]_vars

\* A tick's write failed while the context was live, and a later metrics tick
\* has read and simulated and is about to write.
C7_Witness ==
  /\ tickLogged /\ ~cancelled /\ loop = "running"
  /\ pc[MetricsTick] = "insert" /\ nxt[MetricsTick] # ZeroMetrics

Terminated == loop # "running"

\* C8: once the cancellation signal is raised the scheduler eventually
\* terminates, and it never terminates for any reason other than cancellation.
C8_TerminatesOnCancellationOnly ==
  /\ cancelled ~> Terminated
  /\ [](Terminated => cancelled)

\* C9: after cancellation is signalled the scheduler begins no new metrics or
\* insights tick and a scheduler write made after the signal persists nothing.
C9_CancellationAbortsFutureTicks ==
  [][cancelled =>
       \A t \in Ticks :
         /\ pc[t] = "idle" => pc'[t] = "idle"
         /\ (pc[t] = "insert" /\ pc'[t] = "idle") => mlog' = mlog /\ ilog' = ilog]_vars

\* One tick has read and not yet written while the other is executing.
TicksOverlap ==
  \E t, u \in Ticks :
    t # u /\ pc[t] \in {"sim", "draw", "insert"} /\ pc[u] # "idle"

\* C10 as stated: a state is reached in which a metrics tick and an insights
\* tick are both in progress at the same time.
C10_TicksOverlap == <>TicksOverlap

\* C10 as amended: the metrics tick and the insights tick are mutually
\* exclusive: in no reachable state are both in progress.
C10_TicksNeverOverlap ==
  \A t, u \in Ticks : t # u => pc[t] = "idle" \/ pc[u] = "idle"

\* A metrics tick has read and not yet written, after an insights tick ran to
\* its end; the insights tick is not in progress.
C10_Witness ==
  /\ pc[MetricsTick] = "insert" /\ nxt[MetricsTick] # ZeroMetrics
  /\ Len(ilog) = 1 /\ pc[InsightTick] = "idle"

\* The rows a producer that read snapshot m can append.
SuccessorsOf(m) ==
  {MetricsRow(simulateMetrics(d, m, t)) : d \in SimDraws, t \in 0..MaxNow}

\* C11: with a metrics tick and a POST /metrics/simulate request reading and
\* writing in any interleaving, every snapshot a producer computes and every
\* row appended to the log (every row but one the table started with) is
\* within the Simulator ranges.
C11_InterleavedSuccessorsInRange ==
  /\ \A i \in 1..Len(mlog) :
       (i = 1 /\ <<mlog[1]>> \in InitialLogs) \/ InRanges(mlog[i])
  /\ \A p \in {MetricsTick, 1} : pc[p] = "insert" => InRanges(nxt[p])

\* The log holds two successors of its first snapshot: the second row is newer
\* than the first, and the third was still computed from the first, not from
\* the second.
C11_Witness ==
  /\ Len(mlog) = 3
  /\ mlog[1].at < mlog[2].at
  /\ mlog[2] \in SuccessorsOf(mlog[1])
  /\ mlog[3] \in SuccessorsOf(mlog[1]) \ SuccessorsOf(mlog[2])

IsPrefix(s, t) == Len(s) <= Len(t) /\ SubSeq(t, 1, Len(s)) = s

\* C12: no step of the scheduler or of a handler changes or removes a row of
\* metrics_snapshot or of insights: each table after the step is the table
\* before it, possibly with rows added at its end.
C12_LogsAppendOnly ==
  [][IsPrefix(mlog, mlog') /\ IsPrefix(ilog, ilog')]_vars

\* Both tables are full, and insights holds a row of the scheduler and a row
\* of POST /insights.
C12_Witness ==
  /\ Len(mlog) = MaxWriterLog /\ Len(ilog) = MaxWriterIns
  /\ \E i, j \in 1..Len(ilog) :
       ilog[i].source = "auto" /\ ilog[j].source = "metric"

\* C13: when GET /metrics/trend reads an empty metrics log it answers 200
\* with exactly 12 points whose timestamps are strictly increasing and all
\* earlier than the time of the request, and whose revenues are strictly
\* increasing, however many of the seed points it managed to persist.
C13_TrendSeedsRampOnEmpty ==
  [][/\ (route[1] = "trend" /\ pc[1] = "read" /\ pc'[1] # "read" /\ mlog = <<>>)
          => \/ pc'[1] = "seed" /\ mlog' = mlog
             \/ pc'[1] = "done" /\ resp'[1].error \in StoreErrors
     /\ (route[1] = "trend" /\ pc[1] = "seed" /\ pc'[1] # "seed")
          => /\ pc'[1] = "done"
             /\ resp'[1].status = StatusOK
             /\ Len(resp'[1].data) = 12
             /\ \A k \in 1..12 : resp'[1].data[k].timestamp < now
             /\ \A k \in 1..11 :
                  /\ resp'[1].data[k].timestamp < resp'[1].data[k + 1].timestamp
                  /\ resp'[1].data[k].revenue < resp'[1].data[k + 1].revenue
             /\ IsPrefix(mlog, mlog')]_vars

\* The request found the log empty, persisted only some of the seed points and
\* still answered with the twelve.
C13_Witness ==
  /\ route[1] = "trend" /\ pc[1] = "done" /\ resp[1].status = StatusOK
  /\ Len(mlog) = 5 /\ Len(resp[1].data) = 12
  /\ resp[1].data[12].revenue = 87022

Max(a, b) == IF a > b THEN a ELSE b

\* strconv.Itoa, the decimal numeral of an integer.
RECURSIVE ItoaNat(_)
ItoaNat(n) ==
  IF n < 10 THEN <<Digits[n + 1]>>
  ELSE ItoaNat(n \div 10) \o <<Digits[(n % 10) + 1]>>

Itoa(n) == IF n < 0 THEN <<"-">> \o ItoaNat(0 - n) ELSE ItoaNat(n)

\* C15: the limit handleTrend passes to Store.Trend is max(N, 3) when window
\* is the numeral of the integer N, and 12 when window is absent or holds a
\* character that is no digit and no sign; it is never below 3, and the points
\* of a 200 response are in ascending order of timestamp.
C15_TrendWindowFloor ==
  (route[1] = "trend" /\ pc[1] \in {"seed", "done"}) =>
    /\ \A n \in -99..99 : query[1] = Itoa(n) => limit[1] = Max(n, 3)
    /\ (query[1] = <<>> \/ \E k \in 1..Len(query[1]) : query[1][k] = "x")
         => limit[1] = 12
    /\ limit[1] >= 3
    /\ (pc[1] = "done" /\ resp[1].status = StatusOK) =>
         \A k \in 1..(Len(resp[1].data) - 1) :
           resp[1].data[k].timestamp <= resp[1].data[k + 1].timestamp

\* window=1 was raised to 3: of the twelve stored points the three most recent
\* came back.
C15_Witness ==
  /\ route[1] = "trend" /\ pc[1] = "done" /\ resp[1].status = StatusOK
  /\ query[1] = <<"1">> /\ limit[1] = 3
  /\ Len(mlog) = 12 /\ Len(resp[1].data) = 3
  /\ resp[1].data[3].timestamp = mlog[12].at

\* C14: the limit handleLatestInsights passes to the store is 6 when limit is
\* absent and max(N, 1) when limit is the numeral of the integer N.
C14_InsightsLimitFloorOne ==
  (route[1] = "insights" /\ pc[1] \in {"seed", "done"}) =>
    /\ query[1] = <<>> => limit[1] = 6
    /\ \A n \in -99..99 : query[1] = Itoa(n) => limit[1] = Max(n, 1)

\* C17: POST /insights with a body that decodes never fails before the store
\* is involved: the read step either fails on the store (500, nothing
\* appended) or goes on with the latest snapshot, the baseline when none is
\* stored; the write step either appends exactly one insight of source
\* "metric" and returns it with status 200, or fails on the store (500) and
\* appends nothing.
C17_CreateInsightFailsOnlyOnStore ==
  [][/\ (route[1] = "create" /\ pc[1] = "read" /\ pc'[1] # "read"
         /\ Decode(query[1]).ok)
          => /\ ilog' = ilog /\ mlog' = mlog
             /\ \/ /\ pc'[1] = "insert"
                   /\ mlog = <<>> => Values(cur'[1]) = BaselineValues
                   /\ mlog # <<>> => cur'[1] \in Rows(mlog)
                \/ /\ pc'[1] = "done"
                   /\ resp'[1].status = StatusInternalServerError
                   /\ resp'[1].error \in StoreErrors
     /\ (route[1] = "create" /\ pc[1] = "insert" /\ pc'[1] # "insert")
          => /\ pc'[1] = "done" /\ mlog' = mlog
             /\ \/ /\ resp'[1].status = StatusOK
                   /\ Len(ilog') = Len(ilog) + 1 /\ IsPrefix(ilog, ilog')
                   /\ ilog'[Len(ilog')].source = "metric"
                   /\ resp'[1].data.source = "metric"
                   /\ resp'[1].data.id = ilog'[Len(ilog')].id
                   /\ resp'[1].data.title = ilog'[Len(ilog')].title
                   /\ resp'[1].data.message = ilog'[Len(ilog')].message
                \/ /\ resp'[1].status = StatusInternalServerError
                   /\ resp'[1].error \in StoreErrors
                   /\ ilog' = ilog]_vars

\* An empty metricKey on an empty metrics table: the insight was built from
\* the baseline, appended and returned.
C17_Witness ==
  /\ route[1] = "create" /\ pc[1] = "done" /\ resp[1].status = StatusOK
  /\ query[1] = <<"json", <<>>>> /\ mlog = <<>>
  /\ ilog # <<>> /\ ilog[Len(ilog)].source = "metric"
  /\ ilog[Len(ilog)].title = "Strategy note"
  /\ resp[1].data.id = Len(ilog)

\* C16: POST /metrics/simulate derives one snapshot from the latest stored
\* snapshot (the baseline when none is stored), whose createdAt is not before
\* the createdAt of the snapshot it was derived from (the clock of the model
\* is too coarse to tell "after" from "at"); it then either appends exactly
\* that snapshot, at the precision of the columns, and returns it with status
\* 200, or answers with an error and appends nothing.
C16_SimulateStepAfterPredecessor ==
  [][/\ (route[1] = "simulate" /\ pc[1] = "read" /\ pc'[1] # "read")
          => /\ mlog' = mlog
             /\ \/ /\ pc'[1] = "sim"
                   /\ mlog = <<>> => Values(cur'[1]) = BaselineValues
                   /\ mlog # <<>> => cur'[1] \in LatestMetrics(mlog)
                \/ pc'[1] = "done" /\ resp'[1].status = StatusInternalServerError
     /\ (route[1] = "simulate" /\ pc[1] = "draw" /\ pc'[1] = "insert")
          => /\ InRanges(nxt'[1])
             /\ nxt'[1].at >= cur[1].at
     /\ (route[1] = "simulate" /\ pc[1] = "insert" /\ pc'[1] # "insert")
          => /\ pc'[1] = "done"
             /\ \/ /\ resp'[1].status = StatusOK
                   /\ resp'[1].data = nxt[1]
                   /\ mlog' = Append(mlog, MetricsRow(nxt[1]))
                \/ /\ resp'[1].status = StatusInternalServerError
                   /\ mlog' = mlog]_vars

ExpectedTitle(w) ==
  IF w = <<"r", "e", "v", "e", "n", "u", "e">> THEN "Global revenue focus"
  ELSE IF w = <<"g", "r", "o", "w", "t", "h">> THEN "User growth focus"
  ELSE IF w = <<"s", "e", "n", "t", "i", "m", "e", "n", "t">> THEN "Sentiment index focus"
  ELSE "Backlog focus"

\* C18: buildMetricInsight gives every spelling of revenue, growth, sentiment
\* and backlog, in any mix of letter cases, the title and message of the
\* lower-case word; the four words have four different titles and messages;
\* every other key, the empty one included, gets the fallback title and
\* message; the snapshot changes nothing.
C18_MetricInsightCaseInsensitiveTotal ==
  res # <<>> =>
    /\ \A w \in MetricWords :
         arg.key \in CaseVariants(w) =>
           /\ res[1][1] = ExpectedTitle(w)
           /\ res[1] = buildMetricInsight(w, arg.metrics)
    /\ (\A w \in MetricWords : arg.key \notin CaseVariants(w)) =>
         /\ res[1][1] = "Strategy note"
         /\ res[1] = buildMetricInsight(<<>>, arg.metrics)
    /\ \A v, w \in MetricWords :
         v # w => /\ buildMetricInsight(v, arg.metrics)[1] # buildMetricInsight(w, arg.metrics)[1]
                  /\ buildMetricInsight(v, arg.metrics)[2] # buildMetricInsight(w, arg.metrics)[2]
    /\ \A w \in MetricWords :
         /\ buildMetricInsight(w, arg.metrics)[1] # buildMetricInsight(<<>>, arg.metrics)[1]
         /\ buildMetricInsight(w, arg.metrics)[2] # buildMetricInsight(<<>>, arg.metrics)[2]

\* A key in mixed case was given the revenue insight.
C18_Witness ==
  /\ res # <<>>
  /\ arg.key = <<"R", "e", "V", "E", "n", "U", "e">>
  /\ res[1][1] = "Global revenue focus"

\* The table a route reads first.
TableOf(path) == IF path = "insights" THEN ilog ELSE mlog

\* C19: a handler whose store read fails answers 500 with the store's message
\* at once, and so do POST /insights and POST /metrics/simulate when their
\* write fails; a step that ends in an error leaves both logs as they were and
\* is the last step of the request; a read goes on to seeding only when its
\* table is empty.  POST /insights with a body that does not decode answers
\* 400 with a message and reads and writes nothing.
C19_StoreFailuresSurfaceAs5xx ==
  [][/\ (pc[1] = "read" /\ pc'[1] # "read")
          => /\ mlog' = mlog /\ ilog' = ilog
             /\ IF route[1] = "create" /\ ~Decode(query[1]).ok
                THEN /\ pc'[1] = "done"
                     /\ resp'[1].status = StatusBadRequest
                     /\ resp'[1].error # ""
                     /\ cur' = cur
                ELSE \/ /\ pc'[1] = "done"
                        /\ resp'[1].status = StatusInternalServerError
                        /\ resp'[1].error \in StoreErrors
                     \/ /\ pc'[1] = "done"
                        /\ resp'[1].status = StatusOK /\ resp'[1].error = ""
                        /\ TableOf(route[1]) # <<>>
                     \/ /\ pc'[1] = "seed"
                        /\ route[1] \in {"latest", "trend", "insights"}
                        /\ TableOf(route[1]) = <<>>
                     \/ /\ pc'[1] = "sim" /\ route[1] = "simulate"
                     \/ /\ pc'[1] = "insert" /\ route[1] = "create"
     /\ (pc[1] = "insert" /\ pc'[1] # "insert")
          => /\ pc'[1] = "done"
             /\ \/ /\ resp'[1].status = StatusOK /\ resp'[1].error = ""
                   /\ Len(mlog') + Len(ilog') = Len(mlog) + Len(ilog) + 1
                \/ /\ resp'[1].status = StatusInternalServerError
                   /\ resp'[1].error \in StoreErrors
                   /\ mlog' = mlog /\ ilog' = ilog]_vars

\* GET /metrics/trend on a populated table was answered 500 with the store's
\* message, and the table is as it was.
C19_Witness ==
  /\ route[1] = "trend" /\ pc[1] = "done"
  /\ resp[1].status = StatusInternalServerError
  /\ resp[1].error = "bad connection"
  /\ Len(mlog) = 12

\* The position at which a row was inserted (the rows of TrendLogs differ).
InsertedAt(log, m) == CHOOSE i \in 1..Len(log) : log[i] = m

\* C20: ties of created_at are broken by insertion order: Trend returns rows
\* of equal created_at in the order they were inserted, and of the rows that
\* share the greatest created_at LatestMetrics returns the one inserted last.
C20_TiesBrokenByInsertionOrder ==
  res # <<>> =>
    /\ \A i, j \in 1..Len(res[1]) :
         (i < j /\ res[1][i].at = res[1][j].at) =>
           InsertedAt(arg.log, res[1][i]) < InsertedAt(arg.log, res[1][j])
    /\ \A m \in LatestMetrics(arg.log) :
         \A k \in 1..Len(arg.log) :
           arg.log[k].at >= m.at => k <= InsertedAt(arg.log, m)

\* C21: the ids of the stored insights are assigned on insert, are positive
\* and strictly increase in insertion order (hence are unique), whichever of
\* the insights tick, POST /insights and the seeding of GET /insights/latest
\* wrote them; and an insert made by a request returns the insight with the
\* id of its row and a createdAt that is set.
C21_InsightIdsUniqueIncreasing ==
  [][/\ \A i \in 1..Len(ilog') : ilog'[i].id >= 1
     /\ \A i, j \in 1..Len(ilog') : i < j => ilog'[i].id < ilog'[j].id
     /\ (Len(ilog') > Len(ilog) /\ pc[1] # "done" /\ pc'[1] = "done")
          => LET returned == IF route[1] = "create" THEN resp'[1].data
                             ELSE resp'[1].data[1]
             IN /\ route[1] \in {"create", "insights"}
                /\ returned.id = ilog'[Len(ilog')].id
                /\ \A i \in 1..Len(ilog) : returned.id # ilog[i].id
                /\ returned.at # NoTime]_vars

\* The tick wrote the first insight and POST /insights the second, which came
\* back with id 2.
C21_Witness ==
  /\ Len(ilog) = 2 /\ ilog[1].source = "auto" /\ ilog[2].source = "metric"
  /\ route[1] = "create" /\ pc[1] = "done" /\ resp[1].status = StatusOK
  /\ resp[1].data.id = 2 /\ ilog[1].id = 1

\* C22: for every table and every limit >= 1, LatestInsights returns exactly
\* min(limit, rows) insights, each a different row, they are the rows of
\* greatest created_at, and they come most recent first; on an empty table the
\* result is empty.
C22_LatestInsightsMostRecentFirst ==
  res # <<>> =>
    LET items == res[1] IN
    /\ Len(items) = Min(arg.limit, Len(arg.log))
    /\ Rows(items) \subseteq Rows(arg.log)
    /\ Cardinality(Rows(items)) = Len(items)
    /\ \A x \in Rows(arg.log) \ Rows(items) : \A y \in Rows(items) : x.at <= y.at
    /\ \A i, j \in 1..Len(items) : i < j => items[i].at >= items[j].at
    /\ arg.log = <<>> => items = <<>>

\* LatestInsights cut a table that is not in created_at order down to its two
\* latest rows, the later one first.
C22_Witness ==
  /\ res # <<>>
  /\ Len(arg.log) = 3 /\ arg.limit = 2
  /\ arg.log[1].at > arg.log[2].at /\ arg.log[3].at > arg.log[1].at
  /\ res[1] = <<arg.log[3], arg.log[1]>>

\* C23: when GET /insights/latest reads an empty insights log it makes one
\* attempt to persist the default insight and answers 200 with exactly that
\* one insight, source "auto", the same title and message whether the attempt
\* succeeds (the log gains that one row) or fails (the log is unchanged);
\* when the log is not empty the request writes nothing.
C23_SeedOnEmptyInsights ==
  [][/\ (route[1] = "insights" /\ pc[1] = "read" /\ pc'[1] # "read")
          => /\ ilog' = ilog /\ mlog' = mlog
             /\ IF ilog = <<>>
                THEN \/ pc'[1] = "seed"
                     \/ pc'[1] = "done" /\ resp'[1].error \in StoreErrors
                ELSE pc'[1] = "done"
     /\ (route[1] = "insights" /\ pc[1] = "seed" /\ pc'[1] # "seed")
          => /\ pc'[1] = "done" /\ mlog' = mlog
             /\ resp'[1].status = StatusOK
             /\ Len(resp'[1].data) = 1
             /\ resp'[1].data[1].source = "auto"
             /\ resp'[1].data[1].title = "Executive briefing"
             /\ resp'[1].data[1].message = SeedInsight.message
             /\ \/ ilog' = ilog
                \/ /\ Len(ilog') = Len(ilog) + 1 /\ IsPrefix(ilog, ilog')
                   /\ ilog'[Len(ilog')].source = "auto"
                   /\ ilog'[Len(ilog')].title = "Executive briefing"
                   /\ ilog'[Len(ilog')].message = SeedInsight.message
                   /\ resp'[1].data[1].id = ilog'[Len(ilog')].id]_vars

\* The seed could not be persisted and the request still answered 200 with
\* the default insight.
C23_Witness ==
  /\ route[1] = "insights" /\ pc[1] = "done" /\ resp[1].status = StatusOK
  /\ ilog = <<>>
  /\ Len(resp[1].data) = 1 /\ resp[1].data[1].source = "auto"
  /\ resp[1].data[1].id = 0

\* C24: buildAutoInsight picks the sentiment descriptor strong above 74,
\* fragile below 66 and stable otherwise; the revenue descriptor accelerating
\* above 5.1, weakening below 4.6 and steady otherwise; the backlog descriptor
\* rising above 150, low below 120 and manageable otherwise; the values 74,
\* 66, 5.1, 4.6, 150 and 120 themselves get the middle descriptor, and growth
\* and createdAt change nothing.
C24_AutoInsightThresholds ==
  res # <<>> =>
    LET m == arg.metrics IN
    /\ res[1][2] = "strong" <=> m.sen > 74 * Scale
    /\ res[1][2] = "fragile" <=> m.sen < 66 * Scale
    /\ res[1][2] = "stable" <=> (66 * Scale <= m.sen /\ m.sen <= 74 * Scale)
    /\ res[1][1] = "accelerating" <=> 10 * m.rev > 51 * Scale
    /\ res[1][1] = "weakening" <=> 10 * m.rev < 46 * Scale
    /\ res[1][1] = "steady" <=> (46 * Scale <= 10 * m.rev /\ 10 * m.rev <= 51 * Scale)
    /\ res[1][3] = "rising" <=> m.bkl > 150
    /\ res[1][3] = "low" <=> m.bkl < 120
    /\ res[1][3] = "manageable" <=> (120 <= m.bkl /\ m.bkl <= 150)
    /\ \A g \in {GrowthMin, GrowthMax}, t \in {0, 2} :
         buildAutoInsight(Metrics(m.rev, g, m.sen, m.bkl, t)) = res[1]

\* A snapshot with sentiment 74, revenue 5.1 and backlog 150 got the three
\* middle descriptors.
C24_Witness ==
  /\ res # <<>>
  /\ arg.metrics.sen = 740000 /\ arg.metrics.rev = 51000 /\ arg.metrics.bkl = 150
  /\ res[1] = <<"steady", "stable", "manageable">>

\* C25: requests stalled in their store calls never keep the scheduler from
\* making its store call, and a stalled scheduler tick never keeps a request
\* from making its own: a tick that has reached its read can take a
\* connection whatever the requests are doing, and so can a request while
\* only the tick holds one.
C25_SchedulerAndRequestsNeverBlock ==
  /\ (pc[MetricsTick] = "read" /\ MetricsTick \notin conns)
       => ENABLED ConnAcquire(MetricsTick)
  /\ \A r \in PoolReqs :
       (pc[r] = "read" /\ r \notin conns /\ conns \subseteq {MetricsTick}
        /\ \A q \in PoolReqs : q < r => pc[q] = "done")
         => ENABLED ConnAcquire(r)

\* C26: the error text of a 5xx response does not depend on the text of the
\* store error behind it: two GET /metrics/latest requests answered 500 carry
\* the same message, whichever store errors they met.
C26_StoreErrorTextIsGeneric ==
  \A r, q \in Reqs :
    (/\ route[r] = "latest" /\ pc[r] = "done"
     /\ resp[r].status = StatusInternalServerError
     /\ route[q] = "latest" /\ pc[q] = "done"
     /\ resp[q].status = StatusInternalServerError)
      => resp[r].error = resp[q].error

\* Letters that differ in case only are the same letter.
Fold(c) == IF \E k \in 1..26 : Upper[k] = c
           THEN Lower[CHOOSE k \in 1..26 : Upper[k] = c] ELSE c

\* The configured list has an entry equal to the origin, letter case aside:
\* an entry is what stands between two commas (or an end of the list), less
\* the spaces around it.
OriginListed(list, origin) ==
  \E i, j \in 1..Len(list) :
    /\ i <= j
    /\ i = 1 \/ list[i - 1] = ","
    /\ j = Len(list) \/ list[j + 1] = ","
    /\ \A k \in i..j : list[k] # ","
    /\ \E a, b \in i..j :
         /\ a <= b
         /\ \A k \in i..j : (k < a \/ k > b) => list[k] = " "
         /\ list[a] # " " /\ list[b] # " "
         /\ b - a + 1 = Len(origin)
         /\ \A k \in 1..Len(origin) : Fold(list[a + k - 1]) = Fold(origin[k])

\* C27: corsMiddleware answers every OPTIONS request itself with 204 and does
\* not call the next handler, and passes every other request on; with an
\* empty or "*" configuration it sets Access-Control-Allow-Origin to "*"; with
\* any other configuration it sets the header to the request's origin when
\* the origin is an entry of the list, and does not set it otherwise.
C27_CorsPolicy ==
  res # <<>> =>
    LET out == res[1] IN
    /\ arg.method = "OPTIONS" => (out.status = StatusNoContent /\ ~out.next)
    /\ arg.method # "OPTIONS" => (out.status = 0 /\ out.next)
    /\ arg.allowed \in {<<>>, <<"*">>} => out.allowOrigin = Header(<<"*">>)
    /\ arg.allowed \notin {<<>>, <<"*">>} =>
         IF OriginListed(arg.allowed, arg.origin)
         THEN out.allowOrigin = Header(arg.origin)
         ELSE out.allowOrigin = NoHeader

\* A preflight from origin "b" against the list " B,a": the origin is listed
\* in another letter case and with a space before it, and came back.
C27_Witness ==
  /\ res # <<>>
  /\ arg.allowed = <<" ", "B", ",">> /\ arg.origin = <<"b">>
  /\ arg.method = "OPTIONS"
  /\ res[1].allowOrigin = Header(<<"b">>) /\ ~res[1].next

\* C28: every step of a metrics tick leaves the insights log alone and every
\* step of an insights tick leaves the metrics log alone; a tick reads the
\* latest snapshot, or takes the baseline when there is none, without writing
\* it; the metrics tick appends at most one row, the snapshot simulateMetrics
\* made of what was read; the insights tick appends at most one row, of
\* source "auto", with the message buildAutoInsight made of what was read; a
\* tick that is over keeps nothing of what it read or computed.
C28_TickReadsComputesWritesOnce ==
  [][\A t \in Ticks :
       pc'[t] # pc[t] =>
         /\ t = MetricsTick =>
              /\ ilog' = ilog
              /\ \/ mlog' = mlog
                 \/ /\ pc[t] = "insert"
                    /\ mlog' = Append(mlog, MetricsRow(nxt[t]))
         /\ t = InsightTick =>
              /\ mlog' = mlog
              /\ \/ ilog' = ilog
                 \/ /\ pc[t] = "insert"
                    /\ Len(ilog') = Len(ilog) + 1 /\ IsPrefix(ilog, ilog')
                    /\ ilog'[Len(ilog')].source = "auto"
                    /\ ilog'[Len(ilog')].message = buildAutoInsight(cur[t])
         /\ (pc[t] = "read" /\ pc'[t] # "idle") =>
              /\ mlog' = mlog
              /\ mlog = <<>> => Values(cur'[t]) = BaselineValues
              /\ mlog # <<>> => cur'[t] \in LatestMetrics(mlog)
         /\ (pc[t] = "draw" /\ pc'[t] = "insert") =>
              nxt'[t] \in {simulateMetrics(d, cur[t], now) : d \in SimDraws}
         /\ pc'[t] = "idle" => (cur'[t] = ZeroMetrics /\ nxt'[t] = ZeroMetrics)]_vars

\* Both ticks ran on an empty metrics table: the insights tick wrote an
\* insight made of the baseline and no snapshot, the metrics tick wrote one
\* simulated snapshot and not the baseline.
C28_Witness ==
  /\ Len(mlog) = 1 /\ Values(mlog[1]) # BaselineValues /\ InRanges(mlog[1])
  /\ Len(ilog) = 1 /\ ilog[1].source = "auto"
  /\ ilog[1].title = "AI strategy advisor"
  /\ ilog[1].message = <<"steady", "stable", "manageable">>
  /\ pc[MetricsTick] = "idle" /\ pc[InsightTick] = "idle"
  /\ pc[1] = "idle"

\* C29: a 200 response of GET /metrics/trend never holds more points than
\* the limit handleTrend settled on (max(N, 3) for window=N), whether the
\* metrics table held rows or was empty.
C29_TrendNeverExceedsWindow ==
  (route[1] = "trend" /\ pc[1] = "done" /\ resp[1].status = StatusOK)
    => Len(resp[1].data) <= limit[1]

\* C30: the seeding step of a GET /metrics/trend that found the metrics table
\* empty, the request being the only writer, leaves in the table either all
\* twelve points of seedTrendMetrics or none of them, however its inserts fail.
C30_TrendSeedingAllOrNothing ==
  [][(route[1] = "trend" /\ pc[1] = "seed" /\ pc'[1] # "seed" /\ mlog = <<>>)
        => Len(mlog') \in {0, 12}]_vars

\* C31: a handler's seeding step writes to metrics_snapshot only while
\* that table is empty and to insights only while that table is empty, however
\* requests and ticks interleave; hence the tables never hold more than one
\* baseline snapshot and more than one default insight.
C31_SeedWrittenOnlyIntoEmptyLog ==
  [][\A r \in Reqs :
       (pc[r] = "seed" /\ pc'[r] # "seed") =>
         /\ mlog' # mlog => mlog = <<>>
         /\ ilog' # ilog => ilog = <<>>]_vars

\* C32: no step of POST /insights changes metrics_snapshot, and its write
\* appends at most one insight; no step of POST /metrics/simulate before its
\* write changes metrics_snapshot, and its write appends nothing or exactly
\* one row, the snapshot simulateMetrics computed; on an empty table that
\* snapshot is made of the baseline and the baseline itself is not stored.
C32_PostsNeverPersistBaseline ==
  [][/\ (route[1] = "create" /\ pc'[1] # pc[1] /\ pc[1] # "done")
          => /\ mlog' = mlog
             /\ \/ ilog' = ilog
                \/ /\ pc[1] = "insert"
                   /\ Len(ilog') = Len(ilog) + 1 /\ IsPrefix(ilog, ilog')
     /\ (route[1] = "simulate" /\ pc'[1] # pc[1] /\ pc[1] # "done")
          => /\ ilog' = ilog
             /\ pc[1] # "insert" => mlog' = mlog
             /\ (pc[1] = "draw" /\ mlog = <<>>)
                  => nxt'[1] \in {simulateMetrics(d, defaultMetrics(now), now) :
                                    d \in SimDraws}
             /\ pc[1] = "insert"
                  => \/ mlog' = mlog
                     \/ mlog' = Append(mlog, MetricsRow(nxt[1]))]_vars

\* On empty tables POST /insights stored one insight and no snapshot, and
\* POST /metrics/simulate stored one snapshot, the successor of the baseline
\* and not the baseline.
C32_Witness ==
  /\ route[1] = "simulate" /\ pc[1] = "done" /\ resp[1].status = StatusOK
  /\ Len(mlog) = 1 /\ Values(mlog[1]) # BaselineValues
  /\ mlog[1] \in {MetricsRow(simulateMetrics(d, defaultMetrics(now), now)) :
                    d \in SimDraws}
  /\ Len(ilog) = 1 /\ ilog[1].source = "metric"

\* The insights a 200 response of POST /insights or GET /insights/latest holds.
ReturnedInsights(r) ==
  IF route[r] = "create" THEN {resp[r].data}
  ELSE {resp[r].data[k] : k \in 1..Len(resp[r].data)}

\* C33: every insight of a 200 response of POST /insights or of
\* GET /insights/latest is a row of the insights table: the table holds a row
\* with the id of the returned insight, and that row has its createdAt.
C33_ReturnedInsightIsStoredRecord ==
  \A r \in Reqs :
    (route[r] \in {"create", "insights"} /\ pc[r] = "done"
       /\ resp[r].status = StatusOK)
      => \A x \in ReturnedInsights(r) :
           \E i \in 1..Len(ilog) : ilog[i].id = x.id /\ ilog[i].at = x.at

====
